---- MODULE Spec2Model ----
(***************************************************************************)
(* A model of the prediction game's import-reconcile-and-score pipeline:   *)
(* the scoring engine (leaderboard/scoring.py), the OpenLigaDB importer    *)
(* (matches/importer.py), the tip services (tips/services.py) and the      *)
(* leaderboard services (leaderboard/services.py), working against the     *)
(* relational store declared in the models.py files.                       *)
(*                                                                         *)
(* Optional values (Python's None) are sequences of length at most one:    *)
(* None is <<>>, a present value v is <<v>>.                               *)
(***************************************************************************)
EXTENDS Integers, Sequences, FiniteSets, TLC

None == << >>
Some(v) == << v >>
IsNone(o) == o = << >>
IsSome(o) == o # << >>
Get(o) == o[1]
Opt(S) == {None} \cup {Some(v) : v \in S}

\* F applied to the value of e: a local variable assigned once and read often
Let(e, F(_)) == CHOOSE r \in {F(v) : v \in {e}} : TRUE

(***************************************************************************)
(* Bounds of the model.                                                    *)
(***************************************************************************)
\* goal counts range over 0..MaxGoals
MaxGoals == 3
\* matchday ordinals (groupOrderID) are 1..MaxGroup
MaxGroup == 2
\* the feed serves MaxMatch match records, with matchID 1..MaxMatch
MaxMatch == 2
\* the feed changes at most MaxClock times
MaxClock == 2

(***************************************************************************)
(* Program constants.                                                      *)
(***************************************************************************)
EXACT_SCORE_POINTS == 5
TENDENCY_POINTS == 2
FIRST_GOAL_MINUTE_POINTS == 3
\* the largest minute a goal event or a bonus tip may carry
MaxMinute == 130

VARIABLES
    op,       \* the scoring function last applied ("none" before any call)
    tipArg,   \* Tip: [home_goals_predicted, away_goals_predicted]
    resArg,   \* getattr(match, "result", None): optional MatchResult row
    bonusArg, \* MatchdayBonusTip.first_goal_minute_predicted
    fgmArg,   \* Matchday.first_goal_minute (optional)
    ret,      \* the value returned by the call
    feedGroups,      \* feed: groupName of each available group
    feedMatches,     \* feed: the match records, in list order
    feedLastChanged, \* feed: change-timestamp of each matchday
    clock,           \* the provider's clock: the number of feed changes so far
    db,              \* the store (committed state)
    run,             \* the import run in progress, or the last one when idle
    users,           \* auth User: the ids of the existing accounts
    tips,            \* Tip rows: tips[user][match], optional
    bonusTips,       \* MatchdayBonusTip rows: bonusTips[user][matchday], optional
    entries,         \* SeasonLeaderboardEntry rows of the season: entries[user]
    call,            \* the service call last made and what it reported
    rc               \* the recompute transactions in progress, per worker

scoreVars == <<op, tipArg, resArg, bonusArg, fgmArg, ret>>
importVars == <<feedGroups, feedMatches, feedLastChanged, clock, db, run>>
tipVars == <<users, tips, bonusTips, entries, call, rc>>

(***************************************************************************)
(* leaderboard/scoring.py                                                  *)
(***************************************************************************)
TendencyGE(home, away) ==
    LET diff == home - away
    IN  IF diff >= 0 THEN 1 ELSE -1

_tendency(home, away) ==
    LET diff == home - away
    IN  IF diff > 0 THEN 1 ELSE IF diff < 0 THEN -1 ELSE 0

ScoreTipIgnoresNull(tip, result) ==
    IF IsNone(result) THEN 0
    ELSE LET actual_home == IF IsNone(Get(result).home_goals) THEN 0
                            ELSE Get(Get(result).home_goals)
             actual_away == IF IsNone(Get(result).away_goals) THEN 0
                            ELSE Get(Get(result).away_goals)
         IN  IF tip.home_goals_predicted = actual_home
                  /\ tip.away_goals_predicted = actual_away
             THEN EXACT_SCORE_POINTS
             ELSE IF _tendency(tip.home_goals_predicted, tip.away_goals_predicted)
                        = _tendency(actual_home, actual_away)
             THEN TENDENCY_POINTS
             ELSE 0

\* tip: a Tip row; result: the match's optional MatchResult row, whose goal
\* fields are themselves optional (null=True)
score_tip(tip, result) ==
    IF IsNone(result) THEN 0
    ELSE IF IsNone(Get(result).home_goals) \/ IsNone(Get(result).away_goals) THEN 0
    ELSE LET actual_home == Get(Get(result).home_goals)
             actual_away == Get(Get(result).away_goals)
             predicted_home == tip.home_goals_predicted
             predicted_away == tip.away_goals_predicted
         IN  IF predicted_home = actual_home /\ predicted_away = actual_away
             THEN EXACT_SCORE_POINTS
             ELSE IF _tendency(predicted_home, predicted_away)
                        = _tendency(actual_home, actual_away)
             THEN TENDENCY_POINTS
             ELSE 0

ScoreBonusWithinOne(predicted, first_goal_minute) ==
    IF IsNone(first_goal_minute) THEN 0
    ELSE IF predicted - Get(first_goal_minute) \in {-1, 0, 1}
    THEN FIRST_GOAL_MINUTE_POINTS
    ELSE 0

\* predicted: bonus_tip.first_goal_minute_predicted;
\* first_goal_minute: matchday.first_goal_minute (optional)
score_matchday_bonus(predicted, first_goal_minute) ==
    IF IsNone(first_goal_minute) THEN 0
    ELSE IF predicted = Get(first_goal_minute) THEN FIRST_GOAL_MINUTE_POINTS
    ELSE 0

(***************************************************************************)
(* matches/models.py: the store.  One league and one season are modelled   *)
(* (the league shortcut and season year every run is given); a Matchday is  *)
(* keyed by its order_id, a Team by openligadb_team_id, a Match and its     *)
(* MatchResult by openligadb_match_id.  An absent row is None.             *)
(***************************************************************************)
Groups == 1..MaxGroup
MatchIds == 1..MaxMatch
TeamIds == {1, 2}

\* the fields MatchResult declares
MatchResultFields == {"home_goals", "away_goals"}

EmptyDb ==
    [ league    |-> None,
      season    |-> FALSE,
      matchdays |-> [g \in Groups |-> None],
      teams     |-> [t \in TeamIds |-> None],
      matches   |-> [m \in MatchIds |-> None],
      results   |-> [m \in MatchIds |-> None] ]

\* ImportSummary(league, season) with every counter at its default
NewSummary ==
    [ groups_total |-> 0, groups_with_matches |-> 0, matches_total |-> 0,
      teams_created |-> 0, teams_updated |-> 0,
      matches_created |-> 0, matches_updated |-> 0,
      results_created |-> 0, results_updated |-> 0,
      groups_imported |-> 0 ]

(***************************************************************************)
(* matches/import_utils.py                                                 *)
(***************************************************************************)
\* instants are minutes; DEFAULT_DEADLINE_HOURS_BEFORE_KICKOFF = 3.5 hours
DEFAULT_DEADLINE_MINUTES_BEFORE_KICKOFF == 210

\* a deadline computed with the hours truncated to a whole number (3 hours)
DeadlineWholeHours(earliest_kickoff) == earliest_kickoff - 180

compute_deadline_before_kickoff(earliest_kickoff) ==
    earliest_kickoff - DEFAULT_DEADLINE_MINUTES_BEFORE_KICKOFF

(***************************************************************************)
(* matches/importer.py: extraction from one raw match record.  A record is *)
(*   [matchID, group, matchDateTime, team1, team2 : optional;              *)
(*    matchIsFinished; goals, matchResults : lists; leagueName;            *)
(*    pgroup : the matchday the provider lists the record under].          *)
(* An extractor that raises KeyError returns None.                         *)
(***************************************************************************)
\* str.strip() on the texts the feed carries
Strip(s) ==
    CASE s = " A " -> "A"
      [] s = "  "  -> ""
      [] OTHER     -> s

_match_id(match_json) == match_json.matchID

_group_order_id(match_json) == match_json.group

_kickoff_at(match_json) == match_json.matchDateTime

_is_finished(match_json) == match_json.matchIsFinished = TRUE

_extract_team_fields(team_json) ==
    IF IsNone(team_json.teamId) THEN None
    ELSE Some([ team_id    |-> Get(team_json.teamId),
                name       |-> Strip(team_json.teamName),
                short_name |-> Strip(team_json.shortName),
                icon_url   |-> Strip(team_json.teamIconUrl) ])

\* resultName.strip().lower() contains "end", "ende" or "final"
FinalNames == {"Endergebnis", "Final", "Pending"}
OtherNames == {"Halbzeit", ""}

IsFinalName(name) == name \in FinalNames

OidInt(r) == IF IsSome(r.resultOrderID) THEN Get(r.resultOrderID) ELSE -1

HasBothPoints(r) == IsSome(r.pointsTeam1) /\ IsSome(r.pointsTeam2)

\* for r in results: if oid_int >= best_oid: best = r
RECURSIVE BestLoop(_, _, _)
BestLoop(results, best, best_oid) ==
    IF results = << >> THEN best
    ELSE LET r == Head(results)
         IN  IF OidInt(r) >= best_oid
             THEN BestLoop(Tail(results), Some(r), OidInt(r))
             ELSE BestLoop(Tail(results), best, best_oid)

\* finals[0] instead of finals[-1]: the earliest entry among the final ones
\* with the lowest oid
FirstFinal(results) ==
    LET F == {i \in 1..Len(results) :
                IsFinalName(results[i].resultName) /\ HasBothPoints(results[i])}
    IN  IF F = {} THEN None
        ELSE Some(results[CHOOSE i \in F : \A j \in F :
                     \/ OidInt(results[j]) > OidInt(results[i])
                     \/ (OidInt(results[j]) = OidInt(results[i]) /\ j >= i)])

\* finals.sort(key=oid) is stable; finals[-1] is the latest entry among those
\* with the highest oid
LastFinal(results) ==
    LET F == {i \in 1..Len(results) :
                IsFinalName(results[i].resultName) /\ HasBothPoints(results[i])}
    IN  IF F = {} THEN None
        ELSE Some(results[CHOOSE i \in F : \A j \in F :
                     \/ OidInt(results[j]) < OidInt(results[i])
                     \/ (OidInt(results[j]) = OidInt(results[i]) /\ j <= i)])

\* an extraction that looks at matchResults before the goal events
ExtractScorePrefersResults(match_json) ==
    LET goals == match_json.goals
        results == match_json.matchResults
        last == goals[Len(goals)]
        fromGoals ==
            IF goals # << >> /\ IsSome(last.scoreTeam1) /\ IsSome(last.scoreTeam2)
            THEN Some(<<Get(last.scoreTeam1), Get(last.scoreTeam2)>>)
            ELSE None
    IN  IF results = << >> THEN fromGoals
        ELSE Let(LastFinal(results), LAMBDA final :
             IF IsSome(final)
             THEN Some(<<Get(Get(final).pointsTeam1), Get(Get(final).pointsTeam2)>>)
             ELSE Let(BestLoop(results, None, -1), LAMBDA best :
                  IF IsNone(best) THEN fromGoals
                  ELSE IF ~HasBothPoints(Get(best)) THEN fromGoals
                  ELSE Some(<<Get(Get(best).pointsTeam1),
                              Get(Get(best).pointsTeam2)>>)))

_extract_current_score(match_json) ==
    LET goals == match_json.goals
        results == match_json.matchResults
        last == goals[Len(goals)]
        fromResults ==
            IF results = << >> THEN None
            ELSE Let(LastFinal(results), LAMBDA final :
                 IF IsSome(final)
                 THEN Some(<<Get(Get(final).pointsTeam1), Get(Get(final).pointsTeam2)>>)
                 ELSE Let(BestLoop(results, None, -1), LAMBDA best :
                      IF IsNone(best) THEN None
                      ELSE IF ~HasBothPoints(Get(best)) THEN None
                      ELSE Some(<<Get(Get(best).pointsTeam1),
                                  Get(Get(best).pointsTeam2)>>)))
    IN  IF goals # << >> /\ IsSome(last.scoreTeam1) /\ IsSome(last.scoreTeam2)
        THEN Some(<<Get(last.scoreTeam1), Get(last.scoreTeam2)>>)
        ELSE fromResults

RECURSIVE _extract_first_goal_minute_for_match(_)
_extract_first_goal_minute_for_match(goals) ==
    IF goals = << >> THEN None
    ELSE LET minute == Head(goals).matchMinute
         IN  IF IsSome(minute) /\ 0 <= Get(minute) /\ Get(minute) <= MaxMinute
             THEN minute
             ELSE _extract_first_goal_minute_for_match(Tail(goals))

\* match_rows: the (match_obj, match_json) pairs as [match, kickoff_at, json];
\* best: optional [goal_at, match, minute]
RECURSIVE FirstGoalLoop(_, _)
FirstGoalLoop(match_rows, best) ==
    IF match_rows = << >> THEN best
    ELSE Let(_extract_first_goal_minute_for_match(Head(match_rows).json.goals),
             LAMBDA minute :
                 LET row == Head(match_rows)
                     goal_at == row.kickoff_at + Get(minute)
                     better == /\ IsSome(minute)
                               /\ IsNone(best) \/ goal_at < Get(best).goal_at
                 IN  FirstGoalLoop(Tail(match_rows),
                         IF better
                         THEN Some([goal_at |-> goal_at, match |-> row.match,
                                    minute |-> Get(minute)])
                         ELSE best))

\* the two tests that guard matchday_obj.save(update_fields=[...])
FirstGoalSaves(matchday_obj, match_rows) ==
    Let(FirstGoalLoop(match_rows, None), LAMBDA best :
        IF IsNone(best)
        THEN \/ IsSome(matchday_obj.first_goal_at)
             \/ IsSome(matchday_obj.first_goal_match)
             \/ IsSome(matchday_obj.first_goal_minute)
        ELSE \/ matchday_obj.first_goal_at # Some(Get(best).goal_at)
             \/ matchday_obj.first_goal_match # Some(Get(best).match)
             \/ matchday_obj.first_goal_minute # Some(Get(best).minute))

\* a first goal chosen by the smallest minute, whatever the kickoff
RECURSIVE FirstGoalLoopByMinute(_, _)
FirstGoalLoopByMinute(match_rows, best) ==
    IF match_rows = << >> THEN best
    ELSE Let(_extract_first_goal_minute_for_match(Head(match_rows).json.goals),
             LAMBDA minute :
                 LET row == Head(match_rows)
                     better == /\ IsSome(minute)
                               /\ IsNone(best) \/ Get(minute) < Get(best).minute
                 IN  FirstGoalLoopByMinute(Tail(match_rows),
                         IF better
                         THEN Some([goal_at |-> row.kickoff_at + Get(minute),
                                    match |-> row.match, minute |-> Get(minute)])
                         ELSE best))

FirstGoalByMinute(matchday_obj, match_rows) ==
    Let(FirstGoalLoopByMinute(match_rows, None), LAMBDA best :
        IF IsNone(best)
        THEN [matchday_obj EXCEPT !.first_goal_at = None,
                                  !.first_goal_match = None,
                                  !.first_goal_minute = None]
        ELSE [matchday_obj EXCEPT !.first_goal_at = Some(Get(best).goal_at),
                                  !.first_goal_match = Some(Get(best).match),
                                  !.first_goal_minute = Some(Get(best).minute)])

\* returns the Matchday row after the call (it is saved only when a field changed)
_compute_matchday_first_goal(matchday_obj, match_rows) ==
    Let(FirstGoalLoop(match_rows, None), LAMBDA best :
        IF IsNone(best)
        THEN [matchday_obj EXCEPT !.first_goal_at = None,
                                  !.first_goal_match = None,
                                  !.first_goal_minute = None]
        ELSE [matchday_obj EXCEPT !.first_goal_at = Some(Get(best).goal_at),
                                  !.first_goal_match = Some(Get(best).match),
                                  !.first_goal_minute = Some(Get(best).minute)])

(***************************************************************************)
(* matches/importer.py: upserts.  The loops thread a state                 *)
(*   st = [db, summary, raised, seen, rows, saved]                         *)
(* through their iterations: db is the store as the run sees it, raised    *)
(* says that an exception is propagating (nothing further executes), seen  *)
(* is seen_team_ids and rows the (match_obj, match_json) pairs collected;  *)
(* saved says that _compute_matchday_first_goal has saved the Matchday.    *)
(***************************************************************************)
NewState(d, summary) ==
    [db |-> d, summary |-> summary, raised |-> FALSE, seen |-> {}, rows |-> << >>,
     saved |-> FALSE]

Raise(st) == [st EXCEPT !.raised = TRUE]

UpsertTeamElif(d, team_id, name, short_name, icon_url) ==
    IF IsNone(d.teams[team_id])
    THEN [db |-> [d EXCEPT !.teams[team_id] =
                     Some([name |-> name, short_name |-> short_name,
                           icon_url |-> icon_url])],
          created |-> TRUE, updated |-> FALSE]
    ELSE LET team == Get(d.teams[team_id])
             new == IF name # "" /\ team.name # name
                    THEN [team EXCEPT !.name = name]
                    ELSE IF team.short_name # short_name
                    THEN [team EXCEPT !.short_name = short_name]
                    ELSE IF team.icon_url # icon_url
                    THEN [team EXCEPT !.icon_url = icon_url]
                    ELSE team
         IN  [db |-> [d EXCEPT !.teams[team_id] = Some(new)],
              created |-> FALSE, updated |-> new # team]

_upsert_team(d, team_id, name, short_name, icon_url) ==
    IF IsNone(d.teams[team_id])
    THEN [db |-> [d EXCEPT !.teams[team_id] =
                     Some([name |-> name, short_name |-> short_name,
                           icon_url |-> icon_url])],
          created |-> TRUE, updated |-> FALSE]
    ELSE LET team == Get(d.teams[team_id])
             new == [name |-> IF name # "" /\ team.name # name
                              THEN name ELSE team.name,
                     short_name |-> IF team.short_name # short_name
                                    THEN short_name ELSE team.short_name,
                     icon_url |-> IF team.icon_url # icon_url
                                  THEN icon_url ELSE team.icon_url]
         IN  [db |-> [d EXCEPT !.teams[team_id] = Some(new)],
              created |-> FALSE, updated |-> new # team]

\* the team1/team2 objects of the records, in the order the loops visit them
RECURSIVE TeamJsonsOf(_)
TeamJsonsOf(matches) ==
    IF matches = << >> THEN << >>
    ELSE Head(matches).team1 \o Head(matches).team2 \o TeamJsonsOf(Tail(matches))

\* the body of "for key in (team1, team2)": _extract_team_fields is outside any
\* try, so its KeyError propagates
TeamsStep(st, team_json) ==
    Let(_extract_team_fields(team_json), LAMBDA f :
        IF IsNone(f) THEN Raise(st)
        ELSE IF Get(f).team_id \in st.seen THEN st
        ELSE Let(_upsert_team(st.db, Get(f).team_id, Get(f).name,
                              Get(f).short_name, Get(f).icon_url), LAMBDA r :
                 [st EXCEPT
                    !.db = r.db,
                    !.seen = @ \cup {Get(f).team_id},
                    !.summary.teams_created = @ + (IF r.created THEN 1 ELSE 0),
                    !.summary.teams_updated =
                        @ + (IF ~r.created /\ r.updated THEN 1 ELSE 0)]))

RECURSIVE UpsertTeamsLoop(_, _)
UpsertTeamsLoop(st, team_jsons) ==
    IF team_jsons = << >> \/ st.raised THEN st
    ELSE Let(TeamsStep(st, Head(team_jsons)),
             LAMBDA st1 : UpsertTeamsLoop(st1, Tail(team_jsons)))

\* the attributes the importer reads and writes on a MatchResult
HomeGoalsAttr == "home_goals_ft"
AwayGoalsAttr == "away_goals_ft"

\* MatchResult.objects.create(match=..., <HomeGoalsAttr>=h, <AwayGoalsAttr>=a)
NewResultRow(h, a) ==
    [f \in MatchResultFields |->
        IF f = HomeGoalsAttr THEN Some(h)
        ELSE IF f = AwayGoalsAttr THEN Some(a)
        ELSE None]

\* .only(...), attribute access and create(...) raise when MatchResult has no
\* field of that name
_upsert_match_result(st, match_id, match_json) ==
    Let(_extract_current_score(match_json), LAMBDA score :
        LET home_ft == Get(score)[1]
            away_ft == Get(score)[2]
            existing == st.db.results[match_id]
        IN  IF IsNone(score)
            THEN [st EXCEPT !.db.results[match_id] = None]
            ELSE IF ~({HomeGoalsAttr, AwayGoalsAttr} \subseteq MatchResultFields)
            THEN Raise(st)
            ELSE IF IsSome(existing)
            THEN IF /\ Get(existing)[HomeGoalsAttr] = Some(home_ft)
                    /\ Get(existing)[AwayGoalsAttr] = Some(away_ft)
                 THEN st
                 ELSE [st EXCEPT
                         !.db.results[match_id] =
                             Some([Get(existing) EXCEPT
                                      ![HomeGoalsAttr] = Some(home_ft),
                                      ![AwayGoalsAttr] = Some(away_ft)]),
                         !.summary.results_updated = @ + 1]
            ELSE [st EXCEPT
                    !.db.results[match_id] = Some(NewResultRow(home_ft, away_ft)),
                    !.summary.results_created = @ + 1])

\* Match.objects.update_or_create(openligadb_match_id=..., defaults=...), the
\* counters, _upsert_match_result and the append to the rows
UpsertMatch(st, match_id, matchday, kickoff_at, home_id, away_id, match_json) ==
    LET created == IsNone(st.db.matches[match_id])
        row == [matchday |-> matchday, kickoff_at |-> kickoff_at,
                home_team |-> home_id, away_team |-> away_id,
                is_finished |-> _is_finished(match_json)]
        st1 == [st EXCEPT
                  !.db.matches[match_id] = Some(row),
                  !.summary.matches_created = @ + (IF created THEN 1 ELSE 0),
                  !.summary.matches_updated = @ + (IF created THEN 0 ELSE 1)]
    IN  Let(_upsert_match_result(st1, match_id, match_json), LAMBDA st2 :
            IF st2.raised THEN st2
            ELSE [st2 EXCEPT !.rows = Append(@, [md |-> matchday, match |-> match_id,
                                                 kickoff_at |-> kickoff_at,
                                                 json |-> match_json])])

\* what the try block of a match loop needs besides the matchday
MatchFieldsOk(st, m) ==
    /\ IsSome(_match_id(m))
    /\ IsSome(_kickoff_at(m))
    /\ IsSome(m.team1) /\ IsSome(m.team2)
    /\ IsSome(_extract_team_fields(Get(m.team1)))
    /\ IsSome(_extract_team_fields(Get(m.team2)))
    /\ Get(_extract_team_fields(Get(m.team1))).team_id \in st.seen
    /\ Get(_extract_team_fields(Get(m.team2))).team_id \in st.seen
    /\ IsSome(st.db.teams[Get(_extract_team_fields(Get(m.team1))).team_id])
    /\ IsSome(st.db.teams[Get(_extract_team_fields(Get(m.team2))).team_id])

\* bootstrap_season's match loop body: the matchday comes from the record and
\* must be in matchday_by_order
BootstrapMatchStep(st, m) ==
    IF ~(/\ MatchFieldsOk(st, m)
         /\ IsSome(_group_order_id(m))
         /\ Get(_group_order_id(m)) \in Groups
         /\ IsSome(st.db.matchdays[Get(_group_order_id(m))]))
    THEN st
    ELSE UpsertMatch(st, Get(_match_id(m)), Get(_group_order_id(m)),
                     Get(_kickoff_at(m)),
                     Get(_extract_team_fields(Get(m.team1))).team_id,
                     Get(_extract_team_fields(Get(m.team2))).team_id, m)

\* _import_one_matchday's match loop body: the matchday is the one imported
ImportMatchStep(st, m, gid) ==
    IF ~MatchFieldsOk(st, m) THEN st
    ELSE UpsertMatch(st, Get(_match_id(m)), gid, Get(_kickoff_at(m)),
                     Get(_extract_team_fields(Get(m.team1))).team_id,
                     Get(_extract_team_fields(Get(m.team2))).team_id, m)

RECURSIVE BootstrapMatchLoop(_, _)
BootstrapMatchLoop(st, matches) ==
    IF matches = << >> \/ st.raised THEN st
    ELSE Let(BootstrapMatchStep(st, Head(matches)),
             LAMBDA st1 : BootstrapMatchLoop(st1, Tail(matches)))

RECURSIVE ImportMatchLoop(_, _, _)
ImportMatchLoop(st, matches, gid) ==
    IF matches = << >> \/ st.raised THEN st
    ELSE Let(ImportMatchStep(st, Head(matches), gid),
             LAMBDA st1 : ImportMatchLoop(st1, Tail(matches), gid))

\* min over the kickoffs that can be read
RECURSIVE MinKickoff(_, _)
MinKickoff(matches, earliest) ==
    IF matches = << >> THEN earliest
    ELSE LET kickoff == _kickoff_at(Head(matches))
         IN  IF IsSome(kickoff) /\ (IsNone(earliest) \/ Get(kickoff) < Get(earliest))
             THEN MinKickoff(Tail(matches), kickoff)
             ELSE MinKickoff(Tail(matches), earliest)

RecordsOfGroup(matches, md_order) ==
    SelectSeq(matches, LAMBDA m : _group_order_id(m) = Some(md_order))

\* earliest_by_matchday.get(md_order)
_compute_earliest_kickoffs(matches, md_order) ==
    MinKickoff(RecordsOfGroup(matches, md_order), None)

_compute_earliest_kickoff(matches_in_group) == MinKickoff(matches_in_group, None)

NewMatchday(name, deadline) ==
    [ name |-> name, deadline_at |-> deadline,
      openligadb_last_changed_at |-> None,
      first_goal_at |-> None, first_goal_match |-> None,
      first_goal_minute |-> None ]

\* bootstrap_season's "for group in groups" body (not dry_run): get_or_create
\* with the deadline as a default, then the name is brought up to date
BootstrapGroupStep(st, matches, group_json) ==
    LET md_order == group_json.groupOrderID
        earliest == _compute_earliest_kickoffs(matches, md_order)
        deadline == compute_deadline_before_kickoff(Get(earliest))
        new_name == group_json.groupName
        existing == st.db.matchdays[md_order]
    IN  IF IsNone(earliest) THEN st
        ELSE IF IsNone(existing)
        THEN [st EXCEPT !.db.matchdays[md_order] = Some(NewMatchday(new_name, deadline)),
                        !.summary.groups_imported = @ + 1]
        ELSE IF Get(existing).name # new_name
        THEN [st EXCEPT !.db.matchdays[md_order] =
                            Some([Get(existing) EXCEPT !.name = new_name])]
        ELSE st

RECURSIVE BootstrapGroupsLoop(_, _, _)
BootstrapGroupsLoop(st, matches, groups) ==
    IF groups = << >> THEN st
    ELSE BootstrapGroupsLoop(BootstrapGroupStep(st, matches, Head(groups)),
                             matches, Tail(groups))

\* len(deadlines)
GroupsWithMatches(matches, groups) ==
    Cardinality({i \in 1..Len(groups) :
        IsSome(_compute_earliest_kickoffs(matches, groups[i].groupOrderID))})

RowsOfMatchday(rows, md_order) == SelectSeq(rows, LAMBDA r : r.md = md_order)

\* "for md_order, rows in matchday_rows.items()"
BootstrapFirstGoals(st) ==
    [st EXCEPT !.db.matchdays =
        [g \in Groups |->
            IF RowsOfMatchday(st.rows, g) # << >> /\ IsSome(st.db.matchdays[g])
            THEN Some(_compute_matchday_first_goal(Get(st.db.matchdays[g]),
                                                   RowsOfMatchday(st.rows, g)))
            ELSE st.db.matchdays[g]]]

\* League.objects.get_or_create and the name update; Season get_or_create
UpsertLeagueSeason(d, league_name) ==
    LET withLeague ==
            IF IsNone(d.league)
            THEN [d EXCEPT !.league = Some([name |-> league_name])]
            ELSE IF league_name # "" /\ Get(d.league).name # league_name
            THEN [d EXCEPT !.league = Some([name |-> league_name])]
            ELSE d
    IN  [withLeague EXCEPT !.season = TRUE]

\* bootstrap_season on the store d; matches and groups are what the two feed
\* requests return, fail names the request that raises ("none": neither).
\* Returns the loop state at the return or at the raise; the store writes are
\* not in a transaction, so st.db is the store afterwards in both cases.
bootstrap_season(d, matches, groups, dry_run, fail) ==
    LET s0 == [NewSummary EXCEPT !.matches_total = Len(matches)]
        league_name == IF matches # << >> THEN Head(matches).leagueName ELSE ""
    IN  IF fail = "matches" THEN Raise(NewState(d, NewSummary))
        ELSE IF dry_run
        THEN IF fail = "groups" THEN Raise(NewState(d, s0))
             ELSE NewState(d, [s0 EXCEPT
                     !.groups_total = Len(groups),
                     !.groups_with_matches = GroupsWithMatches(matches, groups)])
        ELSE
        Let(UpsertTeamsLoop(NewState(UpsertLeagueSeason(d, league_name), s0),
                            TeamJsonsOf(matches)), LAMBDA stTeams :
        IF stTeams.raised THEN stTeams
        ELSE IF fail = "groups" THEN Raise(stTeams)
        ELSE
        Let(BootstrapGroupsLoop(
                [stTeams EXCEPT
                    !.summary.groups_total = Len(groups),
                    !.summary.groups_with_matches = GroupsWithMatches(matches, groups)],
                matches, groups), LAMBDA stGroups :
        Let(BootstrapMatchLoop(stGroups, matches), LAMBDA stMatches :
        IF stMatches.raised THEN stMatches
        ELSE BootstrapFirstGoals(stMatches))))

EnsureMatchdayMovesDeadline(st, group_json, matches_in_group) ==
    LET group_id == group_json.groupOrderID
        earliest == _compute_earliest_kickoff(matches_in_group)
        deadline == compute_deadline_before_kickoff(Get(earliest))
        name == Strip(group_json.groupName)
        existing == st.db.matchdays[group_id]
    IN  IF IsNone(earliest) THEN [st |-> st, matchday |-> None]
        ELSE IF IsNone(existing)
        THEN [st |-> [st EXCEPT
                        !.db.matchdays[group_id] = Some(NewMatchday(name, deadline)),
                        !.summary.groups_imported = @ + 1],
              matchday |-> Some(group_id)]
        ELSE [st |-> [st EXCEPT !.db.matchdays[group_id] =
                        Some([Get(existing) EXCEPT
                                !.name = IF name # "" THEN name ELSE @,
                                !.deadline_at = deadline])],
              matchday |-> Some(group_id)]

\* returns the loop state and the Matchday (its order_id) or None
_ensure_matchday(st, group_json, matches_in_group) ==
    LET group_id == group_json.groupOrderID
        earliest == _compute_earliest_kickoff(matches_in_group)
        deadline == compute_deadline_before_kickoff(Get(earliest))
        name == Strip(group_json.groupName)
        existing == st.db.matchdays[group_id]
    IN  IF IsNone(earliest) THEN [st |-> st, matchday |-> None]
        ELSE IF IsNone(existing)
        THEN [st |-> [st EXCEPT
                        !.db.matchdays[group_id] = Some(NewMatchday(name, deadline)),
                        !.summary.groups_imported = @ + 1],
              matchday |-> Some(group_id)]
        ELSE IF name # "" /\ Get(existing).name # name
        THEN [st |-> [st EXCEPT !.db.matchdays[group_id] =
                                    Some([Get(existing) EXCEPT !.name = name])],
              matchday |-> Some(group_id)]
        ELSE [st |-> st, matchday |-> Some(group_id)]

ImportWithoutStamp(st, group_json, matches_in_group, last_changed_at, upto) ==
    Let(_ensure_matchday(st, group_json, matches_in_group), LAMBDA e :
    IF IsNone(e.matchday) THEN st
    ELSE
    Let(UpsertTeamsLoop(e.st, TeamJsonsOf(matches_in_group)), LAMBDA stTeams :
    IF stTeams.raised THEN stTeams
    ELSE
    Let(ImportMatchLoop([stTeams EXCEPT !.rows = << >>],
                        SubSeq(matches_in_group, 1, upto), Get(e.matchday)),
        LAMBDA stMatches :
    IF stMatches.raised THEN stMatches
    ELSE IF upto < Len(matches_in_group) THEN stMatches
    ELSE
    Let(_compute_matchday_first_goal(Get(stMatches.db.matchdays[Get(e.matchday)]),
                                     stMatches.rows), LAMBDA md :
    [stMatches EXCEPT !.db.matchdays[Get(e.matchday)] =
                        Some(md)])
    )))

\* the body of _import_one_matchday, run on the transaction's view of the
\* store.  Of the match loop only the first `upto` records are executed:
\* upto = Len(matches_in_group) is the whole body, a smaller upto (with
\* interrupted) is the body cut short by the process being terminated.
\* an import that stamps the matchday one tick after the looked-up timestamp,
\* as a stamp taken at the time of the write would
ImportStampsAhead(st, group_json, matches_in_group, last_changed_at, upto) ==
    Let(_ensure_matchday(st, group_json, matches_in_group), LAMBDA e :
    IF IsNone(e.matchday) THEN st
    ELSE
    Let(UpsertTeamsLoop(e.st, TeamJsonsOf(matches_in_group)), LAMBDA stTeams :
    IF stTeams.raised THEN stTeams
    ELSE
    Let(ImportMatchLoop([stTeams EXCEPT !.rows = << >>],
                        SubSeq(matches_in_group, 1, upto), Get(e.matchday)),
        LAMBDA stMatches :
    IF stMatches.raised THEN stMatches
    ELSE IF upto < Len(matches_in_group) THEN stMatches
    ELSE
    Let(_compute_matchday_first_goal(Get(stMatches.db.matchdays[Get(e.matchday)]),
                                     stMatches.rows), LAMBDA md :
    [stMatches EXCEPT !.db.matchdays[Get(e.matchday)] =
                        Some([md EXCEPT !.openligadb_last_changed_at =
                                    Some(last_changed_at + 1)])])
    )))

ImportOneMatchdayBody(st, group_json, matches_in_group, last_changed_at, upto) ==
    Let(_ensure_matchday(st, group_json, matches_in_group), LAMBDA e :
    IF IsNone(e.matchday) THEN st
    ELSE
    Let(UpsertTeamsLoop(e.st, TeamJsonsOf(matches_in_group)), LAMBDA stTeams :
    IF stTeams.raised THEN stTeams
    ELSE
    Let(ImportMatchLoop([stTeams EXCEPT !.rows = << >>],
                        SubSeq(matches_in_group, 1, upto), Get(e.matchday)),
        LAMBDA stMatches :
    IF stMatches.raised THEN stMatches
    ELSE IF upto < Len(matches_in_group) THEN stMatches
    ELSE
    Let(_compute_matchday_first_goal(Get(stMatches.db.matchdays[Get(e.matchday)]),
                                     stMatches.rows), LAMBDA md :
    [stMatches EXCEPT !.db.matchdays[Get(e.matchday)] =
                        Some([md EXCEPT !.openligadb_last_changed_at =
                                    Some(last_changed_at)]),
                      !.saved =
                        FirstGoalSaves(Get(stMatches.db.matchdays[Get(e.matchday)]),
                                       stMatches.rows)])
    )))

NoTransaction(before, st, interrupted) == st.db

\* @transaction.atomic: the writes are committed when the body returns and
\* rolled back when it raises or the process is terminated
TransactionAtomic(before, st, interrupted) ==
    IF st.raised \/ interrupted THEN before ELSE st.db

HasChangedGE(db_last_changed, dt) ==
    IsNone(db_last_changed) \/ dt >= Get(db_last_changed)

\* has_changed = (db_last_changed is None) or (dt > db_last_changed)
HasChanged(db_last_changed, dt) ==
    IsNone(db_last_changed) \/ dt > Get(db_last_changed)

StoredStamp(d, gid) ==
    IF IsSome(d.matchdays[gid])
    THEN Get(d.matchdays[gid]).openligadb_last_changed_at
    ELSE None

\* planned.sort(key=lambda t: t[0])
RECURSIVE SortByGid(_)
SortByGid(s) ==
    IF s = << >> THEN << >>
    ELSE LET i == CHOOSE i \in 1..Len(s) : \A j \in 1..Len(s) : s[i].gid <= s[j].gid
         IN  <<s[i]>> \o SortByGid(SubSeq(s, 1, i - 1) \o SubSeq(s, i + 1, Len(s)))

\* the planning loop without planned.sort: the matchdays stay in the order
\* their lookups completed
PlannedUnsorted(d, last_changed_map) ==
    SelectSeq(last_changed_map, LAMBDA e : HasChanged(StoredStamp(d, e.gid), e.dt))

\* a planning loop that also plans the matchdays whose lookup gave nothing
PlansFailedLookups(d, last_changed_map) ==
    LET looked_up == {last_changed_map[k].gid : k \in 1..Len(last_changed_map)}
        Missing[g \in 0..MaxGroup] ==
            IF g = 0 THEN << >>
            ELSE IF g \in looked_up THEN Missing[g - 1]
            ELSE Append(Missing[g - 1], [gid |-> g, dt |-> 0])
    IN  SortByGid(SelectSeq(last_changed_map,
                            LAMBDA e : HasChanged(StoredStamp(d, e.gid), e.dt))
                  \o Missing[MaxGroup])

\* the planning loop over last_changed_map (in insertion order) and the sort
Planned(d, last_changed_map) ==
    SortByGid(SelectSeq(last_changed_map,
                        LAMBDA e : HasChanged(StoredStamp(d, e.gid), e.dt)))

(***************************************************************************)
(* The feed (matches/openligadb_client.py, the provider behind it) and the *)
(* records it serves.                                                      *)
(***************************************************************************)
Kickoffs == {600, 630}

TeamJsonA(t) ==
    [teamId |-> Some(t), teamName |-> "A", shortName |-> "a", teamIconUrl |-> ""]
TeamJsonB(t) ==
    [teamId |-> Some(t), teamName |-> "B", shortName |-> "b", teamIconUrl |-> ""]
TeamJsonNoId(t) ==
    [teamId |-> None, teamName |-> "A", shortName |-> "a", teamIconUrl |-> ""]
Team1Jsons == {TeamJsonA(1), TeamJsonB(1), TeamJsonNoId(1)}

GoalEvent(minute, s1, s2) ==
    [matchMinute |-> minute, scoreTeam1 |-> s1, scoreTeam2 |-> s2]
ResultEntry(name, oid, p1, p2) ==
    [resultName |-> name, resultOrderID |-> oid, pointsTeam1 |-> p1, pointsTeam2 |-> p2]

\* what a record says about the state of play: nothing yet; a goal event that
\* carries a minute but no running score; a live score; a final result
Contents ==
    { [goals |-> << >>, matchResults |-> << >>, matchIsFinished |-> FALSE],
      [goals |-> <<GoalEvent(Some(70), None, None)>>, matchResults |-> << >>,
       matchIsFinished |-> FALSE],
      [goals |-> <<GoalEvent(Some(5), Some(1), Some(0))>>, matchResults |-> << >>,
       matchIsFinished |-> FALSE],
      [goals |-> << >>,
       matchResults |-> <<ResultEntry("Endergebnis", Some(2), Some(2), Some(1))>>,
       matchIsFinished |-> TRUE] }

GroupNames == {"R", "S"}

\* the record the provider serves for match i before any change
BaseMatch(i) ==
    [ matchID |-> Some(i), pgroup |-> 1, group |-> Some(1),
      matchDateTime |-> Some(600),
      team1 |-> Some(TeamJsonA(1)), team2 |-> Some(TeamJsonA(2)),
      matchIsFinished |-> FALSE, goals |-> << >>, matchResults |-> << >>,
      leagueName |-> "BL" ]

\* GET getmatchdata/{league}/{season}
fetch_matches_season(matches) == matches

\* a matchday request that answers with the records of the whole season
FetchIgnoresGroup(matches, gid) == matches

\* GET getmatchdata/{league}/{season}/{groupOrderID}
fetch_matches_matchday(matches, gid) == SelectSeq(matches, LAMBDA m : m.pgroup = gid)

\* GET getavailablegroups/{league}/{season}
fetch_available_groups(names) ==
    [g \in 1..MaxGroup |-> [groupOrderID |-> g, groupName |-> names[g]]]

(***************************************************************************)
(* OpenLigaDbClient._get_json and the typed fetch methods over one HTTP     *)
(* exchange.  A transport outcome t says what requests.get did for the     *)
(* request: t.exc is the exception it raised, if any; otherwise t.status   *)
(* and t.body describe the response ("json": the endpoint's document,      *)
(* "other_json": valid JSON of another type, "not_json": no JSON).         *)
(***************************************************************************)
\* the classes an exception of class cls is an instance of
Mro(cls) ==
    CASE cls = "ConnectionError" ->
            {"ConnectionError", "RequestException", "OSError", "Exception"}
      [] cls = "ConnectTimeout" ->
            {"ConnectTimeout", "ConnectionError", "Timeout", "RequestException",
             "OSError", "Exception"}
      [] cls = "ReadTimeout" ->
            {"ReadTimeout", "Timeout", "RequestException", "OSError", "Exception"}
      [] cls = "HTTPError" ->
            {"HTTPError", "RequestException", "OSError", "Exception"}
      [] cls = "JSONDecodeError" ->
            {"JSONDecodeError", "InvalidJSONError", "RequestException", "ValueError",
             "OSError", "Exception"}
      [] cls = "RuntimeError" -> {"RuntimeError", "Exception"}

IsInstance(cls, base) == base \in Mro(cls)

\* response.raise_for_status()
raise_for_status(status) == status \in 400..599

\* a JSON document and its Python type after response.json()
Json(type, value) == [type |-> type, value |-> value]
OtherJson == Json("dict", << >>)

\* the try block of _get_json: requests.get, raise_for_status, response.json;
\* the exception it ends in, if any
GetJsonTry(t) ==
    IF IsSome(t.exc) THEN t.exc
    ELSE IF raise_for_status(t.status) THEN Some("HTTPError")
    ELSE IF t.body = "not_json" THEN Some("JSONDecodeError")
    ELSE None

\* the except clauses of _get_json in order; an exception none of them
\* matches propagates as it is
GetJsonRaised(thrown) ==
    IF IsNone(thrown) THEN None
    ELSE IF IsInstance(Get(thrown), "Timeout") THEN Some("RuntimeError")
    ELSE IF IsInstance(Get(thrown), "HTTPError") THEN Some("RuntimeError")
    ELSE IF IsInstance(Get(thrown), "ValueError") THEN Some("RuntimeError")
    ELSE thrown

\* _get_json(endpoint): one requests.get; document is what the endpoint
\* serves
_get_json(t, document) ==
    LET raised == GetJsonRaised(GetJsonTry(t))
    IN  [ requests |-> 1,
          raised |-> raised,
          data |-> IF IsSome(raised) THEN None
                   ELSE IF t.body = "json" THEN Some(document)
                   ELSE Some(OtherJson) ]

\* "data = self._get_json(endpoint); if not isinstance(data, T): raise
\* RuntimeError; return data" of the four fetch methods
ClientFetch(t, document, type) ==
    LET r == _get_json(t, document)
    IN  IF IsSome(r.raised) THEN r
        ELSE IF Get(r.data).type # type
        THEN [r EXCEPT !.raised = Some("RuntimeError"), !.data = None]
        ELSE r

\* what requests.get can do for one request
HttpStatuses == {200, 404, 500}
Transports ==
    {[exc |-> Some(c), status |-> 200, body |-> "json"] :
        c \in {"ConnectionError", "ConnectTimeout", "ReadTimeout"}}
    \cup {[exc |-> None, status |-> s, body |-> b] :
            s \in HttpStatuses, b \in {"json", "other_json", "not_json"}}

\* a call of one fetch method; documents[gid] is what the endpoint serves for
\* the argument gid
ClientCall(name, documents, type) ==
    \E t \in Transports, gid \in DOMAIN documents :
        \E r \in {ClientFetch(t, documents[gid], type)} :
            /\ call' = [op |-> name, gid |-> gid, transport |-> t,
                        requests |-> r.requests, raised |-> r.raised,
                        data |-> r.data]
            /\ UNCHANGED <<importVars, scoreVars, users, tips, bonusTips, entries, rc>>

(***************************************************************************)
(* The import runs against a changing feed.                                *)
(***************************************************************************)
\* after: how the run before this one ended ("returned" or "raised") when that
\* run entered through the same entry point, wrote to the store, met no failed
\* feed request, was not terminated, and the feed has not changed since it
\* started; "none" otherwise.
\* rolledBack: a matchday transaction of this run ended in an exception or a
\* termination after it had changed rows.
\* requested: the run has issued a feed request.
IdleRun ==
    [ mode |-> "none", pc |-> "idle", status |-> "none", dry_run |-> FALSE,
      summary |-> NewSummary, groups |-> << >>, pending |-> {},
      last_changed_map |-> << >>, errors |-> {}, planned |-> << >>, idx |-> 0,
      startVer |-> 0, clean |-> TRUE, after |-> "none", rolledBack |-> FALSE,
      recomputed |-> FALSE, requested |-> FALSE ]

\* the run's local variables are gone when it has ended
Ended(r, status) ==
    [r EXCEPT !.pc = "idle", !.status = status, !.groups = << >>, !.pending = {},
              !.last_changed_map = << >>, !.errors = {}, !.idx = 0]

ImportInit ==
    /\ feedGroups = [g \in Groups |-> "R"]
    /\ feedMatches = [i \in MatchIds |-> BaseMatch(i)]
    /\ feedLastChanged = [g \in Groups |-> 0]
    /\ clock = 0
    /\ db = EmptyDb
    /\ run = IdleRun

\* the provider changes one record; the matchdays it touches get a new
\* change-timestamp
FeedChangeMatch(i, rec) ==
    /\ clock < MaxClock
    /\ run.pc # "lookups"
    /\ rec # feedMatches[i]
    /\ clock' = clock + 1
    /\ feedMatches' = [feedMatches EXCEPT ![i] = rec]
    /\ feedLastChanged' =
          [g \in Groups |->
              IF g \in {feedMatches[i].pgroup, rec.pgroup}
              THEN clock + 1 ELSE feedLastChanged[g]]
    /\ UNCHANGED <<feedGroups, db, run, scoreVars, tipVars>>

FeedMoveMatch ==
    \E i \in MatchIds, g \in Groups :
        FeedChangeMatch(i, [feedMatches[i] EXCEPT !.pgroup = g, !.group = Some(g)])

FeedChangeKickoff ==
    \E i \in MatchIds, k \in Opt(Kickoffs) :
        FeedChangeMatch(i, [feedMatches[i] EXCEPT !.matchDateTime = k])

FeedChangeContent ==
    \E i \in MatchIds, c \in Contents :
        FeedChangeMatch(i, [feedMatches[i] EXCEPT
                               !.goals = c.goals,
                               !.matchResults = c.matchResults,
                               !.matchIsFinished = c.matchIsFinished])

FeedChangeTeam ==
    \E i \in MatchIds, t \in Team1Jsons :
        FeedChangeMatch(i, [feedMatches[i] EXCEPT !.team1 = Some(t)])

FeedRenameGroup ==
    \E g \in Groups, n \in GroupNames :
        /\ clock < MaxClock
        /\ run.pc # "lookups"
        /\ n # feedGroups[g]
        /\ clock' = clock + 1
        /\ feedGroups' = [feedGroups EXCEPT ![g] = n]
        /\ feedLastChanged' = [feedLastChanged EXCEPT ![g] = clock + 1]
        /\ UNCHANGED <<feedMatches, db, run, scoreVars, tipVars>>

StartRun(mode, dry_run) ==
    [IdleRun EXCEPT
        !.mode = mode, !.dry_run = dry_run, !.status = "running",
        !.startVer = clock,
        !.after = IF /\ run.mode = mode /\ ~run.dry_run /\ run.clean
                     /\ run.status \in {"returned", "raised"}
                     /\ run.startVer = clock
                  THEN run.status ELSE "none"]

\* bootstrap_season(client, league_shortcut, season_year, dry_run); fail names
\* the feed request that raises, if any
Bootstrap(dry_run) ==
    \E fail \in {"none", "matches", "groups"} :
        \E st \in {bootstrap_season(db, fetch_matches_season(feedMatches),
                                     fetch_available_groups(feedGroups), dry_run, fail)} :
            /\ run.pc = "idle"
            /\ db' = st.db
            /\ run' = [StartRun("bootstrap", dry_run) EXCEPT
                          !.status = IF st.raised THEN "raised" ELSE "returned",
                          !.summary = st.summary,
                          !.clean = (fail = "none"),
                          !.requested = TRUE]
            /\ UNCHANGED <<feedGroups, feedMatches, feedLastChanged, clock, scoreVars, tipVars>>

\* an update_season_smart that requests the groups before it looks up the
\* season
SmartStartFetchesFirst(dry_run) ==
    \E fail \in BOOLEAN :
        LET groups == fetch_available_groups(feedGroups)
            noSeason == IsNone(db.league) \/ ~db.season
            r == [StartRun("smart", dry_run) EXCEPT !.requested = TRUE]
        IN  /\ run.pc = "idle"
            /\ run' = IF fail
                      THEN [r EXCEPT !.status = "raised", !.clean = FALSE]
                      ELSE IF noSeason
                      THEN [r EXCEPT !.status = "raised"]
                      ELSE [r EXCEPT !.pc = "lookups", !.groups = groups,
                                     !.summary.groups_total = Len(groups),
                                     !.pending = {groups[k].groupOrderID :
                                                     k \in 1..Len(groups)}]
            /\ UNCHANGED <<feedGroups, feedMatches, feedLastChanged, clock, db, scoreVars, tipVars>>

\* update_season_smart up to the submission of the change-timestamp lookups:
\* _get_season_or_raise, then fetch_available_groups
SmartStart(dry_run) ==
    \E fail \in BOOLEAN :
        LET groups == fetch_available_groups(feedGroups)
            noSeason == IsNone(db.league) \/ ~db.season
            r == StartRun("smart", dry_run)
        IN  /\ run.pc = "idle"
            /\ run' = IF noSeason
                      THEN [r EXCEPT !.status = "raised"]
                      ELSE IF fail
                      THEN [r EXCEPT !.status = "raised", !.clean = FALSE,
                                     !.requested = TRUE]
                      ELSE [r EXCEPT !.pc = "lookups", !.groups = groups,
                                     !.requested = TRUE,
                                     !.summary.groups_total = Len(groups),
                                     !.pending = {groups[k].groupOrderID :
                                                     k \in 1..Len(groups)}]
            /\ UNCHANGED <<feedGroups, feedMatches, feedLastChanged, clock, db, scoreVars, tipVars>>

\* one worker's _fetch_last_changed completes and its future is collected
LookupDone ==
    \E gid \in run.pending :
        /\ run.pc = "lookups"
        /\ run' = [run EXCEPT
                     !.pending = @ \ {gid},
                     !.last_changed_map =
                         Append(@, [gid |-> gid, dt |-> feedLastChanged[gid]])]
        /\ UNCHANGED <<feedGroups, feedMatches, feedLastChanged, clock, db, scoreVars, tipVars>>

\* one worker's request fails: errors.append((gid, str(e)))
LookupFailed ==
    \E gid \in run.pending :
        /\ run.pc = "lookups"
        /\ run' = [run EXCEPT !.pending = @ \ {gid}, !.errors = @ \cup {gid},
                              !.clean = FALSE]
        /\ UNCHANGED <<feedGroups, feedMatches, feedLastChanged, clock, db, scoreVars, tipVars>>

\* every future is done: the planning loop, the sort, and the dry-run return
Plan ==
    /\ run.pc = "lookups"
    /\ run.pending = {}
    /\ LET planned == Planned(db, run.last_changed_map)
           r == [run EXCEPT !.planned = planned,
                            !.summary.groups_with_matches = Len(planned)]
       IN  run' = IF run.dry_run
                  THEN Ended(r, "returned")
                  ELSE [r EXCEPT !.pc = "import", !.idx = 1]
    /\ UNCHANGED <<feedGroups, feedMatches, feedLastChanged, clock, db, scoreVars, tipVars>>

GroupJsonOf(gid) ==
    run.groups[CHOOSE k \in 1..Len(run.groups) : run.groups[k].groupOrderID = gid]

\* one iteration of "for idx, (gid, raw, dt) in enumerate(planned)":
\* fetch_matches_matchday raises and the matchday is skipped
ImportFetchFailed ==
    /\ run.pc = "import"
    /\ run.idx <= Len(run.planned)
    /\ run' = [run EXCEPT !.idx = @ + 1, !.clean = FALSE]
    /\ UNCHANGED <<feedGroups, feedMatches, feedLastChanged, clock, db, scoreVars, tipVars>>

\* one iteration: the fetch succeeds and _import_one_matchday runs in its
\* transaction; an exception it raises propagates out of update_season_smart
ImportMatchday ==
    /\ run.pc = "import"
    /\ run.idx <= Len(run.planned)
    /\ LET p == run.planned[run.idx]
           matches_in_group == fetch_matches_matchday(feedMatches, p.gid)
       IN  \E st \in {ImportOneMatchdayBody(NewState(db, run.summary),
                           GroupJsonOf(p.gid), matches_in_group, p.dt,
                           Len(matches_in_group))} :
           /\ db' = TransactionAtomic(db, st, FALSE)
           /\ run' = IF st.raised
                     THEN Ended([run EXCEPT !.summary = st.summary,
                                            !.rolledBack = (st.db # db)], "raised")
                     ELSE [run EXCEPT !.idx = @ + 1, !.summary = st.summary,
                                      !.summary.matches_total =
                                          @ + Len(matches_in_group)]
    /\ UNCHANGED <<feedGroups, feedMatches, feedLastChanged, clock, scoreVars, tipVars>>

\* ImportMatchday, with the call record saying whether
\* _compute_matchday_first_goal saved the Matchday row
ImportMatchdayLogged ==
    /\ run.pc = "import"
    /\ run.idx <= Len(run.planned)
    /\ LET p == run.planned[run.idx]
           matches_in_group == fetch_matches_matchday(feedMatches, p.gid)
       IN  \E st \in {ImportOneMatchdayBody(NewState(db, run.summary),
                           GroupJsonOf(p.gid), matches_in_group, p.dt,
                           Len(matches_in_group))} :
           /\ db' = TransactionAtomic(db, st, FALSE)
           /\ run' = IF st.raised
                     THEN Ended([run EXCEPT !.summary = st.summary,
                                            !.rolledBack = (st.db # db)], "raised")
                     ELSE [run EXCEPT !.idx = @ + 1, !.summary = st.summary,
                                      !.summary.matches_total =
                                          @ + Len(matches_in_group)]
           /\ call' = [op |-> "_import_one_matchday", gid |-> p.gid,
                       first_goal_saved |-> st.saved]
    /\ UNCHANGED <<feedGroups, feedMatches, feedLastChanged, clock, scoreVars,
                   users, tips, bonusTips, entries, rc>>

\* the process is terminated while _import_one_matchday is in its match loop,
\* after upto of the matchday's records
ImportInterrupted ==
    /\ run.pc = "import"
    /\ run.idx <= Len(run.planned)
    /\ LET p == run.planned[run.idx]
           matches_in_group == fetch_matches_matchday(feedMatches, p.gid)
       IN  \E upto \in 0..(Len(matches_in_group) - 1) :
             \E st \in {ImportOneMatchdayBody(NewState(db, run.summary),
                           GroupJsonOf(p.gid), matches_in_group, p.dt, upto)} :
                 /\ db' = TransactionAtomic(db, st, TRUE)
                 /\ run' = Ended([run EXCEPT !.clean = FALSE,
                                             !.rolledBack = (st.db # db)], "killed")
    /\ UNCHANGED <<feedGroups, feedMatches, feedLastChanged, clock, scoreVars, tipVars>>

\* the loop is over: update_season_smart returns its summary
SmartReturn ==
    /\ run.pc = "import"
    /\ run.idx > Len(run.planned)
    /\ run' = Ended(run, "returned")
    /\ UNCHANGED <<feedGroups, feedMatches, feedLastChanged, clock, db, scoreVars, tipVars>>

ImportNext ==
    \/ FeedMoveMatch
    \/ FeedChangeKickoff
    \/ FeedChangeContent
    \/ FeedChangeTeam
    \/ FeedRenameGroup
    \/ Bootstrap(FALSE)
    \/ SmartStart(FALSE)
    \/ LookupDone
    \/ LookupFailed
    \/ Plan
    \/ ImportFetchFailed
    \/ ImportMatchday
    \/ ImportInterrupted
    \/ SmartReturn

(***************************************************************************)
(* tips/models.py, tips/services.py: users, tips and bonus tips.  A Tip is *)
(* keyed by (user, match), a MatchdayBonusTip by (user, matchday), as their *)
(* unique constraints say; deleting a user deletes the rows (CASCADE).     *)
(***************************************************************************)
\* user ids are 1..MaxUser
MaxUser == 2
UserIds == 1..MaxUser

NoTips == [u \in UserIds |-> [m \in MatchIds |-> None]]
NoBonusTips == [u \in UserIds |-> [g \in Groups |-> None]]
NoEntries == [u \in UserIds |-> None]
NoCall == [op |-> "none"]
NoWorkers == << >>

\* every account exists, nobody has tipped, nothing was computed
TipsIdle ==
    /\ users = UserIds
    /\ tips = NoTips
    /\ bonusTips = NoBonusTips
    /\ entries = NoEntries
    /\ call = NoCall
    /\ rc = NoWorkers

\* Tip.is_editable, MatchdayBonusTip.is_editable, Matchday.is_open_for_tipping
is_editable(deadline_at, now) == now <= deadline_at

\* match.matchday.deadline_at
DeadlineOfMatch(d, match_id) ==
    Get(d.matchdays[Get(d.matches[match_id]).matchday]).deadline_at

ValidateTipDeadlineExclusive(d, user, match, home, away, now) ==
    IF IsNone(user) THEN FALSE
    ELSE IF IsNone(match) THEN FALSE
    ELSE IF home < 0 \/ away < 0 THEN FALSE
    ELSE IF now >= DeadlineOfMatch(d, Get(match)) THEN FALSE
    ELSE TRUE

\* FALSE when it raises ValidationError; now is at, or timezone.now() when at
\* is None
_validate_tip_input(d, user, match, home, away, now) ==
    IF IsNone(user) THEN FALSE
    ELSE IF IsNone(match) THEN FALSE
    ELSE IF home < 0 \/ away < 0 THEN FALSE
    ELSE IF now > DeadlineOfMatch(d, Get(match)) THEN FALSE
    ELSE TRUE

UpsertTipAlwaysWrites(t, d, user, match, home_goals_predicted, away_goals_predicted, now) ==
    IF ~_validate_tip_input(d, user, match, home_goals_predicted,
                            away_goals_predicted, now)
    THEN [tips |-> t, created |-> FALSE, updated |-> FALSE, raised |-> TRUE]
    ELSE LET existing == t[Get(user)][Get(match)]
             created == IsNone(existing)
         IN  [tips |-> [t EXCEPT ![Get(user)][Get(match)] =
                           Some([home_goals_predicted |-> home_goals_predicted,
                                 away_goals_predicted |-> away_goals_predicted])],
              created |-> created,
              updated |-> IsSome(existing) /\ ~created,
              raised |-> FALSE]

\* t: the Tip table; the result carries the table after the call
upsert_tip(t, d, user, match, home_goals_predicted, away_goals_predicted, now) ==
    IF ~_validate_tip_input(d, user, match, home_goals_predicted,
                            away_goals_predicted, now)
    THEN [tips |-> t, created |-> FALSE, updated |-> FALSE, raised |-> TRUE]
    ELSE LET existing == t[Get(user)][Get(match)]
             created == IsNone(existing)
         IN  IF /\ IsSome(existing)
                /\ Get(existing).home_goals_predicted = home_goals_predicted
                /\ Get(existing).away_goals_predicted = away_goals_predicted
             THEN [tips |-> t, created |-> FALSE, updated |-> FALSE,
                   raised |-> FALSE]
             ELSE [tips |-> [t EXCEPT ![Get(user)][Get(match)] =
                                Some([home_goals_predicted |-> home_goals_predicted,
                                      away_goals_predicted |-> away_goals_predicted])],
                   created |-> created,
                   updated |-> IsSome(existing) /\ ~created,
                   raised |-> FALSE]

ValidateBonusNoUpperBound(d, user, matchday, minute, now) ==
    IF IsNone(user) THEN FALSE
    ELSE IF IsNone(matchday) THEN FALSE
    ELSE IF minute < 0 THEN FALSE
    ELSE IF now > Get(d.matchdays[Get(matchday)]).deadline_at THEN FALSE
    ELSE TRUE

\* FALSE when it raises ValidationError
_validate_bonus_tip_input(d, user, matchday, minute, now) ==
    IF IsNone(user) THEN FALSE
    ELSE IF IsNone(matchday) THEN FALSE
    ELSE IF minute < 0 \/ minute > MaxMinute THEN FALSE
    ELSE IF now > Get(d.matchdays[Get(matchday)]).deadline_at THEN FALSE
    ELSE TRUE

\* b: the MatchdayBonusTip table
upsert_matchday_bonus_tip(b, d, user, matchday, first_goal_minute_predicted, now) ==
    IF ~_validate_bonus_tip_input(d, user, matchday, first_goal_minute_predicted, now)
    THEN [bonusTips |-> b, created |-> FALSE, updated |-> FALSE, raised |-> TRUE]
    ELSE LET existing == b[Get(user)][Get(matchday)]
             created == IsNone(existing)
         IN  IF IsSome(existing) /\ Get(existing) = first_goal_minute_predicted
             THEN [bonusTips |-> b, created |-> FALSE, updated |-> FALSE,
                   raised |-> FALSE]
             ELSE [bonusTips |-> [b EXCEPT ![Get(user)][Get(matchday)] =
                                     Some(first_goal_minute_predicted)],
                   created |-> created,
                   updated |-> IsSome(existing) /\ ~created,
                   raised |-> FALSE]

StoredMatches == {m \in MatchIds : IsSome(db.matches[m])}
StoredMatchdays == {g \in Groups : IsSome(db.matchdays[g])}

\* a call of upsert_tip with arguments from the given sets
UpsertTip(userArgs, matchArgs, homeArgs, awayArgs, times) ==
    \E user \in userArgs, match \in matchArgs, now \in times :
      \E home \in homeArgs, away \in awayArgs :
        \E r \in {upsert_tip(tips, db, user, match, home, away, now)} :
            /\ tips' = r.tips
            /\ call' = [op |-> "upsert_tip", user |-> user, target |-> match,
                        values |-> <<home, away>>, now |-> now,
                        raised |-> r.raised, created |-> r.created,
                        updated |-> r.updated]
            /\ UNCHANGED <<users, bonusTips, entries, rc, importVars, scoreVars>>

\* a call of upsert_matchday_bonus_tip with arguments from the given sets
UpsertBonusTip(userArgs, matchdayArgs, minuteArgs, times) ==
    \E user \in userArgs, matchday \in matchdayArgs, now \in times :
      \E minute \in minuteArgs :
        \E r \in {upsert_matchday_bonus_tip(bonusTips, db, user, matchday, minute, now)} :
            /\ bonusTips' = r.bonusTips
            /\ call' = [op |-> "upsert_matchday_bonus_tip", user |-> user,
                        target |-> matchday, values |-> <<minute>>, now |-> now,
                        raised |-> r.raised, created |-> r.created,
                        updated |-> r.updated]
            /\ UNCHANGED <<users, tips, entries, rc, importVars, scoreVars>>

(***************************************************************************)
(* leaderboard/scoring.py: one user's score over the season's rows.        *)
(***************************************************************************)
RECURSIVE TipsPointsUpTo(_, _, _, _)
\* tips_points after the user's tips on matches 1..n
TipsPointsUpTo(t, d, u, n) ==
    IF n = 0 THEN 0
    ELSE TipsPointsUpTo(t, d, u, n - 1)
            + (IF IsSome(t[u][n]) THEN score_tip(Get(t[u][n]), d.results[n]) ELSE 0)

RECURSIVE BonusPointsUpTo(_, _, _, _)
\* bonus_points after the user's bonus tips on matchdays 1..n
BonusPointsUpTo(b, d, u, n) ==
    IF n = 0 THEN 0
    ELSE BonusPointsUpTo(b, d, u, n - 1)
            + (IF IsSome(b[u][n])
               THEN score_matchday_bonus(Get(b[u][n]),
                                         Get(d.matchdays[n]).first_goal_minute)
               ELSE 0)

\* UserScoreBreakdown(tips_points, bonus_points)
compute_user_score_for_season(t, b, d, u) ==
    [ tips_points |-> TipsPointsUpTo(t, d, u, MaxMatch),
      bonus_points |-> BonusPointsUpTo(b, d, u, MaxGroup) ]

(***************************************************************************)
(* leaderboard/services.py over the season's rows.  entries[user] is the   *)
(* user's SeasonLeaderboardEntry [tips_points, bonus_points], if any.      *)
(***************************************************************************)
RECURSIVE SumTipPoints(_, _, _, _)
\* "for tip in tips": the score_tip values of user u's tips on matches ms
SumTipPoints(t, d, u, ms) ==
    IF ms = {} THEN 0
    ELSE LET m == CHOOSE x \in ms : TRUE
         IN  (IF IsSome(t[u][m]) THEN score_tip(Get(t[u][m]), d.results[m]) ELSE 0)
                + SumTipPoints(t, d, u, ms \ {m})

RECURSIVE SumBonusPoints(_, _, _, _)
\* "for bt in bonus_tips": the score_matchday_bonus values of user u's bonus tips
SumBonusPoints(b, d, u, gs) ==
    IF gs = {} THEN 0
    ELSE LET g == CHOOSE x \in gs : TRUE
         IN  (IF IsSome(b[u][g])
              THEN score_matchday_bonus(Get(b[u][g]), Get(d.matchdays[g]).first_goal_minute)
              ELSE 0)
                + SumBonusPoints(b, d, u, gs \ {g})

\* tips_points_by_user.get(uid, 0) after the loop over the tips
TipsPointsByUser(t, d) == [u \in UserIds |-> SumTipPoints(t, d, u, MatchIds)]
\* bonus_points_by_user.get(uid, 0) after the loop over the bonus tips
BonusPointsByUser(b, d) == [u \in UserIds |-> SumBonusPoints(b, d, u, Groups)]
\* the user ids the tips loop adds to user_ids
TipUserIds(t) == {u \in UserIds : \E m \in MatchIds : IsSome(t[u][m])}
\* the user ids the bonus-tips loop adds to user_ids
BonusUserIds(b) == {u \in UserIds : \E g \in Groups : IsSome(b[u][g])}

\* User.objects.filter(id__in=user_ids)
ExistingUserIds(user_ids, us) == user_ids \cap us

\* "for uid in existing_user_ids": existing is the dict of the entries read
\* under select_for_update
PlanWrites(existing_user_ids, tp, bp, existing) ==
    [ to_create |-> {u \in existing_user_ids : IsNone(existing[u])},
      to_update |-> {u \in existing_user_ids :
                        /\ IsSome(existing[u])
                        /\ \/ Get(existing[u]).tips_points # tp[u]
                           \/ Get(existing[u]).bonus_points # bp[u]} ]

\* a MatchResult row with both goal fields set
ResultRowOf(h, a) == [home_goals |-> Some(h), away_goals |-> Some(a)]

NewEntry(t_pts, b_pts) == [tips_points |-> t_pts, bonus_points |-> b_pts]

\* bulk_create(to_create) and bulk_update(to_update, ["tips_points","bonus_points"])
ApplyWrites(e, plan, tp, bp) ==
    [u \in UserIds |->
        IF u \in plan.to_create \cup plan.to_update
        THEN Some(NewEntry(tp[u], bp[u]))
        ELSE e[u]]

RecomputeUpdatesAll(t, b, us, e, d) ==
    LET tp == TipsPointsByUser(t, d)
        bp == BonusPointsByUser(b, d)
        existing_user_ids == ExistingUserIds(TipUserIds(t) \cup BonusUserIds(b), us)
        plan == [to_create |-> {u \in existing_user_ids : IsNone(e[u])},
                 to_update |-> {u \in existing_user_ids : IsSome(e[u])}]
    IN  [ entries |-> ApplyWrites(e, plan, tp, bp),
          created |-> plan.to_create, updated |-> plan.to_update,
          ret |-> Cardinality(plan.to_create) + Cardinality(plan.to_update) ]

RecomputeTipsOnly(t, b, us, e, d) ==
    LET tp == TipsPointsByUser(t, d)
        bp == [u \in UserIds |-> 0]
        existing_user_ids == ExistingUserIds(TipUserIds(t) \cup BonusUserIds(b), us)
        plan == PlanWrites(existing_user_ids, tp, bp, e)
    IN  [ entries |-> ApplyWrites(e, plan, tp, bp),
          created |-> plan.to_create, updated |-> plan.to_update,
          ret |-> Cardinality(plan.to_create) + Cardinality(plan.to_update) ]

\* one transaction running alone; created and updated are the user ids of
\* to_create and to_update
recompute_leaderboard_for_season(t, b, us, e, d) ==
    LET tp == TipsPointsByUser(t, d)
        bp == BonusPointsByUser(b, d)
        user_ids == TipUserIds(t) \cup BonusUserIds(b)
        existing_user_ids == ExistingUserIds(user_ids, us)
        plan == PlanWrites(existing_user_ids, tp, bp, e)
    IN  IF user_ids = {} \/ existing_user_ids = {}
        THEN [entries |-> e, created |-> {}, updated |-> {}, ret |-> 0]
        ELSE [ entries |-> ApplyWrites(e, plan, tp, bp),
               created |-> plan.to_create, updated |-> plan.to_update,
               ret |-> Cardinality(plan.to_create) + Cardinality(plan.to_update) ]

\* LeaderboardRow of one entry (display_name is left out)
LeaderboardRow(u, entry) ==
    [ user_id |-> u,
      points |-> entry.tips_points + entry.bonus_points,
      tips_points |-> entry.tips_points,
      bonus_points |-> entry.bonus_points ]

OrderedBeforeNoTipsKey(r1, r2) ==
    \/ r1.points > r2.points
    \/ r1.points = r2.points /\ r1.user_id < r2.user_id

\* order_by("-total_points_db", "-tips_points", "user_id")
OrderedBefore(r1, r2) ==
    \/ r1.points > r2.points
    \/ r1.points = r2.points /\ r1.tips_points > r2.tips_points
    \/ /\ r1.points = r2.points /\ r1.tips_points = r2.tips_points
       /\ r1.user_id < r2.user_id

RECURSIVE OrderBy(_)
OrderBy(rows) ==
    IF rows = {} THEN << >>
    ELSE LET first == CHOOSE r \in rows :
                         \A o \in rows \ {r} : OrderedBefore(r, o)
         IN  <<first>> \o OrderBy(rows \ {first})

compute_leaderboard_for_season(e) ==
    OrderBy({LeaderboardRow(u, Get(e[u])) : u \in {x \in UserIds : IsSome(e[x])}})

\* recompute_leaderboard_for_season as the only transaction at work
Recompute ==
    \E r \in {recompute_leaderboard_for_season(tips, bonusTips, users, entries, db)} :
        /\ entries' = r.entries
        /\ call' = [op |-> "recompute", ret |-> r.ret, created |-> r.created,
                    updated |-> r.updated]
        /\ UNCHANGED <<users, tips, bonusTips, rc, importVars, scoreVars>>

\* a MatchResult row is written or removed
ResultRecorded(matchArgs, resultArgs) ==
    \E m \in matchArgs, res \in resultArgs :
        /\ db.results[m] # res
        /\ db' = [db EXCEPT !.results[m] = res]
        /\ call' = [op |-> "result"]
        /\ UNCHANGED <<users, tips, bonusTips, entries, rc, scoreVars,
                       feedGroups, feedMatches, feedLastChanged, clock, run>>

\* Matchday.first_goal_minute is written
FirstGoalRecorded(matchdayArgs, minuteArgs) ==
    \E g \in matchdayArgs, minute \in minuteArgs :
        /\ Get(db.matchdays[g]).first_goal_minute # minute
        /\ db' = [db EXCEPT !.matchdays[g] =
                      Some([Get(db.matchdays[g]) EXCEPT !.first_goal_minute = minute])]
        /\ call' = [op |-> "first_goal"]
        /\ UNCHANGED <<users, tips, bonusTips, entries, rc, scoreVars,
                       feedGroups, feedMatches, feedLastChanged, clock, run>>

\* a user account is deleted, and with it the rows that reference it
\* (on_delete=CASCADE)
DeleteUser ==
    \E u \in users :
        /\ users' = users \ {u}
        /\ tips' = [tips EXCEPT ![u] = [m \in MatchIds |-> None]]
        /\ bonusTips' = [bonusTips EXCEPT ![u] = [g \in Groups |-> None]]
        /\ entries' = [entries EXCEPT ![u] = None]
        /\ call' = [op |-> "delete_user"]
        /\ UNCHANGED <<rc, importVars, scoreVars>>

\* import_openligadb's handle after the import has returned its summary
\* a command that decides on the summary alone
ShouldRecomputeIgnoresDryRun(r) ==
    \/ r.mode = "bootstrap"
    \/ r.summary.results_created > 0
    \/ r.summary.results_updated > 0
    \/ r.summary.groups_with_matches > 0

\* a command that recomputes only when a result was written
ShouldRecomputeOnResultsOnly(r) ==
    /\ ~r.dry_run
    /\ \/ r.summary.results_created > 0
       \/ r.summary.results_updated > 0

should_recompute(r) ==
    /\ ~r.dry_run
    /\ \/ r.mode = "bootstrap"
       \/ r.summary.results_created > 0
       \/ r.summary.results_updated > 0
       \/ r.summary.groups_with_matches > 0

\* the command's recompute step; an import that raised has ended the command
\* with CommandError before it
CommandRecompute ==
    /\ run.pc = "idle"
    /\ run.status = "returned"
    /\ ~run.recomputed
    /\ should_recompute(run)
    /\ IsSome(db.league) /\ db.season
    /\ \E r \in {recompute_leaderboard_for_season(tips, bonusTips, users, entries, db)} :
          /\ entries' = r.entries
          /\ call' = [op |-> "recompute", ret |-> r.ret, created |-> r.created,
                      updated |-> r.updated]
    /\ run' = [run EXCEPT !.recomputed = TRUE]
    /\ UNCHANGED <<users, tips, bonusTips, rc, scoreVars,
                   feedGroups, feedMatches, feedLastChanged, clock, db>>

(***************************************************************************)
(* recompute_leaderboard_for_season statement by statement, for            *)
(* transactions that overlap.  Each statement sees the rows committed when *)
(* it runs (READ COMMITTED); select_for_update locks the entry rows it     *)
(* returns until the transaction ends and waits for rows another           *)
(* transaction has locked; the writes and the commit are one step.         *)
(***************************************************************************)
Workers == {1, 2}

IdleWorker ==
    [ pc |-> "start", status |-> "none", ret |-> 0,
      tips_points_by_user |-> [u \in UserIds |-> 0],
      bonus_points_by_user |-> [u \in UserIds |-> 0],
      user_ids |-> {}, existing_user_ids |-> {},
      locked |-> {}, to_create |-> {}, to_update |-> {} ]

\* the transaction is over: its locals are gone and its locks released
Finished(w, status, returned) ==
    [IdleWorker EXCEPT !.pc = "done", !.status = status, !.ret = returned]

\* "for tip in tips": the tips query is evaluated
RcReadTips(w) ==
    /\ rc[w].pc = "start"
    /\ rc' = [rc EXCEPT ![w].pc = "bonus",
                        ![w].status = "running",
                        ![w].tips_points_by_user = TipsPointsByUser(tips, db),
                        ![w].user_ids = TipUserIds(tips)]
    /\ UNCHANGED <<users, tips, bonusTips, entries, call, importVars, scoreVars>>

\* "for bt in bonus_tips", then "if not user_ids: return 0"
RcReadBonusTips(w) ==
    /\ rc[w].pc = "bonus"
    /\ LET user_ids == rc[w].user_ids \cup BonusUserIds(bonusTips)
       IN  rc' = IF user_ids = {}
                 THEN [rc EXCEPT ![w] = Finished(w, "returned", 0)]
                 ELSE [rc EXCEPT ![w].pc = "users",
                                 ![w].bonus_points_by_user =
                                     BonusPointsByUser(bonusTips, db),
                                 ![w].user_ids = user_ids]
    /\ UNCHANGED <<users, tips, bonusTips, entries, call, importVars, scoreVars>>

\* existing_user_ids, then "if not existing_user_ids: return 0"
RcReadUsers(w) ==
    /\ rc[w].pc = "users"
    /\ LET existing_user_ids == ExistingUserIds(rc[w].user_ids, users)
       IN  rc' = IF existing_user_ids = {}
                 THEN [rc EXCEPT ![w] = Finished(w, "returned", 0)]
                 ELSE [rc EXCEPT ![w].pc = "lock",
                                 ![w].existing_user_ids = existing_user_ids]
    /\ UNCHANGED <<users, tips, bonusTips, entries, call, importVars, scoreVars>>

\* existing_entries under select_for_update, and the loop that fills
\* to_create and to_update
RcLockEntries(w) ==
    /\ rc[w].pc = "lock"
    /\ LET rows == {u \in rc[w].existing_user_ids : IsSome(entries[u])}
           plan == PlanWrites(rc[w].existing_user_ids, rc[w].tips_points_by_user,
                              rc[w].bonus_points_by_user, entries)
       IN  /\ \A o \in Workers \ {w} : rc[o].locked \cap rows = {}
           /\ rc' = [rc EXCEPT ![w].pc = "write",
                               ![w].locked = rows,
                               ![w].to_create = plan.to_create,
                               ![w].to_update = plan.to_update]
    /\ UNCHANGED <<users, tips, bonusTips, entries, call, importVars, scoreVars>>

\* bulk_create, bulk_update, return and commit; bulk_create raises
\* IntegrityError on a (season, user) that has a row by now, and the
\* transaction is rolled back
RcWrite(w) ==
    /\ rc[w].pc = "write"
    /\ LET plan == [to_create |-> rc[w].to_create, to_update |-> rc[w].to_update]
           duplicate == \E u \in plan.to_create : IsSome(entries[u])
       IN  /\ entries' = IF duplicate THEN entries
                         ELSE ApplyWrites(entries, plan, rc[w].tips_points_by_user,
                                          rc[w].bonus_points_by_user)
           /\ rc' = IF duplicate
                     THEN [rc EXCEPT ![w] = Finished(w, "raised", 0)]
                     ELSE [rc EXCEPT ![w] =
                              Finished(w, "returned",
                                       Cardinality(plan.to_create)
                                          + Cardinality(plan.to_update))]
           /\ call' = [op |-> "recompute", ret |-> rc'[w].ret,
                       created |-> IF duplicate THEN {} ELSE plan.to_create,
                       updated |-> IF duplicate THEN {} ELSE plan.to_update]
    /\ UNCHANGED <<users, tips, bonusTips, importVars, scoreVars>>

(***************************************************************************)
(* The scoring functions applied to every input within the bounds.         *)
(***************************************************************************)
Goals == 0..MaxGoals
Minutes == 0..MaxMinute
TipRows == [home_goals_predicted : Goals, away_goals_predicted : Goals]
ResultRows == [home_goals : Opt(Goals), away_goals : Opt(Goals)]

DefaultTip == [home_goals_predicted |-> 0, away_goals_predicted |-> 0]

ScoringInit ==
    /\ ImportInit
    /\ TipsIdle
    /\ op = "none"
    /\ ret = 0
    /\ \/ /\ tipArg \in TipRows
          /\ resArg \in Opt(ResultRows)
          /\ bonusArg = 0
          /\ fgmArg = None
       \/ /\ tipArg = DefaultTip
          /\ resArg = None
          /\ bonusArg \in Minutes
          /\ fgmArg \in Opt(Minutes)

CallScoreTip ==
    /\ op = "none"
    /\ bonusArg = 0 /\ fgmArg = None
    /\ op' = "score_tip"
    /\ ret' = score_tip(tipArg, resArg)
    /\ UNCHANGED <<tipArg, resArg, bonusArg, fgmArg>>
    /\ UNCHANGED <<importVars, tipVars>>

CallScoreMatchdayBonus ==
    /\ op = "none"
    /\ tipArg = DefaultTip /\ resArg = None
    /\ op' = "score_matchday_bonus"
    /\ ret' = score_matchday_bonus(bonusArg, fgmArg)
    /\ UNCHANGED <<tipArg, resArg, bonusArg, fgmArg>>
    /\ UNCHANGED <<importVars, tipVars>>

ScoringNext == CallScoreTip \/ CallScoreMatchdayBonus

vars == <<op, tipArg, resArg, bonusArg, fgmArg, ret,
          feedGroups, feedMatches, feedLastChanged, clock, db, run,
          users, tips, bonusTips, entries, call, rc>>

ScoringSpec == ScoringInit /\ [][ScoringNext]_vars

\* the importer with no scoring call in progress
ImportSpecInit ==
    /\ ImportInit
    /\ TipsIdle
    /\ op = "none" /\ ret = 0 /\ tipArg = DefaultTip /\ resArg = None
    /\ bonusArg = 0 /\ fgmArg = None

ImportSpec == ImportSpecInit /\ [][ImportNext]_vars

(***************************************************************************)
(* The tip services called on a bootstrapped store.                        *)
(***************************************************************************)
\* a feed without scores whose matches are spread over the matchdays
SeedFeed ==
    [i \in MatchIds |->
        LET g == ((i - 1) % MaxGroup) + 1
        IN  [BaseMatch(i) EXCEPT !.pgroup = g, !.group = Some(g)]]

SeedGroups == [g \in Groups |-> "R"]

\* the store after bootstrap_season has imported the seed feed
SeededDb ==
    bootstrap_season(EmptyDb, fetch_matches_season(SeedFeed),
                     fetch_available_groups(SeedGroups), FALSE, "none").db

\* the seed feed served, its import done, no call made yet
SeededInit ==
    /\ feedGroups = SeedGroups
    /\ feedMatches = SeedFeed
    /\ feedLastChanged = [g \in Groups |-> 0]
    /\ clock = 0
    /\ db = SeededDb
    /\ run = IdleRun
    /\ op = "none" /\ ret = 0 /\ tipArg = DefaultTip /\ resArg = None
    /\ bonusArg = 0 /\ fgmArg = None
    /\ TipsIdle

\* the instants around the deadline of the seeded matchdays
SeedDeadline == DeadlineOfMatch(SeededDb, 1)
TipTimes == {SeedDeadline - 1, SeedDeadline, SeedDeadline + 1}
\* predicted goal values, one of them invalid
TipGoalArgs == -1..1
\* predicted minutes: the ends of the valid range and their outer neighbours
TipMinuteArgs == {-1, 0, MaxMinute, MaxMinute + 1}

\* the second user has tipped or not; the calls followed are the first user's
TipsInit ==
    /\ feedGroups = SeedGroups
    /\ feedMatches = SeedFeed
    /\ feedLastChanged = [g \in Groups |-> 0]
    /\ clock = 0
    /\ db = SeededDb
    /\ run = IdleRun
    /\ op = "none" /\ ret = 0 /\ tipArg = DefaultTip /\ resArg = None
    /\ bonusArg = 0 /\ fgmArg = None
    /\ users = UserIds
    /\ \E r \in {upsert_tip(NoTips, SeededDb, Some(MaxUser), Some(1), 1, 0,
                              SeedDeadline)} :
          tips \in {NoTips, r.tips}
    /\ \E r \in {upsert_matchday_bonus_tip(NoBonusTips, SeededDb, Some(MaxUser),
                                             Some(1), 70, SeedDeadline)} :
          bonusTips \in {NoBonusTips, r.bonusTips}
    /\ entries = NoEntries
    /\ call = NoCall
    /\ rc = NoWorkers

CallUpsertTip ==
    UpsertTip(Opt(users \cap {1}), Opt(StoredMatches \cap {1}), TipGoalArgs,
              TipGoalArgs, TipTimes)

CallUpsertBonusTip ==
    UpsertBonusTip(Opt(users \cap {1}), Opt(StoredMatchdays \cap {1}),
                   TipMinuteArgs, TipTimes)

TipsNext ==
    \/ CallUpsertTip
    \/ CallUpsertBonusTip

TipsSpec == TipsInit /\ [][TipsNext]_vars

(***************************************************************************)
(* The leaderboard recomputed, one transaction at a time, while users tip  *)
(* and results and first-goal facts come in.                               *)
(***************************************************************************)
\* the results a match gets: the tip 1-0 scores 5 against the first and 2
\* against the second
LbResults == {None, Some(ResultRowOf(1, 0)), Some(ResultRowOf(2, 0))}
\* the minute every bonus tip names, and the first-goal facts of a matchday
LbMinuteArgs == {5}
LbFirstGoals == Opt(LbMinuteArgs)

LeaderboardInit == SeededInit

LbUpsertTip ==
    UpsertTip({Some(u) : u \in users}, {Some(m) : m \in StoredMatches},
              {1}, {0}, {SeedDeadline})

LbUpsertBonusTip ==
    UpsertBonusTip({Some(u) : u \in users}, {Some(g) : g \in StoredMatchdays \cap {1}},
                   LbMinuteArgs, {SeedDeadline})

LbResultRecorded == ResultRecorded(StoredMatches, LbResults)

LbFirstGoalRecorded == FirstGoalRecorded(StoredMatchdays \cap {1}, LbFirstGoals)

LeaderboardNext ==
    \/ LbUpsertTip
    \/ LbUpsertBonusTip
    \/ LbResultRecorded
    \/ LbFirstGoalRecorded
    \/ DeleteUser
    \/ Recompute

LeaderboardSpec == LeaderboardInit /\ [][LeaderboardNext]_vars

(***************************************************************************)
(* Two recompute transactions for the season, started at any time, while   *)
(* tips and results keep coming in.                                        *)
(***************************************************************************)
ConcurrentInit ==
    /\ feedGroups = SeedGroups
    /\ feedMatches = SeedFeed
    /\ feedLastChanged = [g \in Groups |-> 0]
    /\ clock = 0
    /\ db = SeededDb
    /\ run = IdleRun
    /\ op = "none" /\ ret = 0 /\ tipArg = DefaultTip /\ resArg = None
    /\ bonusArg = 0 /\ fgmArg = None
    /\ users = UserIds
    /\ tips = NoTips
    /\ bonusTips = NoBonusTips
    /\ entries = NoEntries
    /\ call = NoCall
    /\ rc = [w \in Workers |-> IdleWorker]

CcUpsertTip ==
    UpsertTip({Some(u) : u \in users}, {Some(m) : m \in StoredMatches \cap {1}},
              {1}, {0}, {SeedDeadline})

CcResultRecorded == ResultRecorded(StoredMatches \cap {1}, LbResults)

CcReadTips == \E w \in Workers : RcReadTips(w)
CcReadBonusTips == \E w \in Workers : RcReadBonusTips(w)
CcReadUsers == \E w \in Workers : RcReadUsers(w)
CcLockEntries == \E w \in Workers : RcLockEntries(w)
CcWrite == \E w \in Workers : RcWrite(w)

ConcurrentNext ==
    \/ CcUpsertTip
    \/ CcResultRecorded
    \/ CcReadTips
    \/ CcReadBonusTips
    \/ CcReadUsers
    \/ CcLockEntries
    \/ CcWrite

ConcurrentSpec == ConcurrentInit /\ [][ConcurrentNext]_vars

(***************************************************************************)
(* End to end: a user tips 2-1 on match 1, the feed reports and corrects   *)
(* the final score, and the import command runs in smart mode.             *)
(***************************************************************************)
\* the final scores the feed reports for match 1
FinalScores == {<<2, 1>>, <<1, 1>>}

FinalContent(score) ==
    [goals |-> << >>,
     matchResults |-> <<ResultEntry("Endergebnis", Some(2), Some(score[1]),
                                    Some(score[2]))>>,
     matchIsFinished |-> TRUE]

EndToEndInit == SeededInit

E2EUpsertTip ==
    UpsertTip({Some(u) : u \in users \cap {1}}, {Some(m) : m \in StoredMatches \cap {1}},
              {2}, {1}, {SeedDeadline})

E2EFeedFinalScore ==
    \E score \in FinalScores :
        FeedChangeMatch(1, [feedMatches[1] EXCEPT
                               !.goals = FinalContent(score).goals,
                               !.matchResults = FinalContent(score).matchResults,
                               !.matchIsFinished = FinalContent(score).matchIsFinished])

EndToEndNext ==
    \/ E2EUpsertTip
    \/ E2EFeedFinalScore
    \/ SmartStart(FALSE)
    \/ LookupDone
    \/ Plan
    \/ ImportMatchday
    \/ SmartReturn
    \/ CommandRecompute

EndToEndSpec == EndToEndInit /\ [][EndToEndNext]_vars

(***************************************************************************)
(* The feed client called against a changing feed.                         *)
(***************************************************************************)
ClientInit == ImportSpecInit

ClientFetchAvailableGroups ==
    ClientCall("fetch_available_groups",
               [g \in {0} |-> Json("list", fetch_available_groups(feedGroups))], "list")

ClientFetchMatchesSeason ==
    ClientCall("fetch_matches_season",
               [g \in {0} |-> Json("list", fetch_matches_season(feedMatches))], "list")

ClientFetchMatchesMatchday ==
    ClientCall("fetch_matches_matchday",
               [g \in Groups |-> Json("list", fetch_matches_matchday(feedMatches, g))],
               "list")

ClientFetchLastChanged ==
    ClientCall("fetch_last_changed",
               [g \in Groups |-> Json("str", feedLastChanged[g])], "str")

ClientNext ==
    \/ FeedChangeContent
    \/ FeedRenameGroup
    \/ ClientFetchAvailableGroups
    \/ ClientFetchMatchesSeason
    \/ ClientFetchMatchesMatchday
    \/ ClientFetchLastChanged

ClientSpec == ClientInit /\ [][ClientNext]_vars

(***************************************************************************)
(* The import command with --dry-run, next to real bootstraps and tips.    *)
(***************************************************************************)
DryRunInit == ImportSpecInit

DryUpsertTip ==
    UpsertTip({Some(u) : u \in users \cap {1}}, {Some(m) : m \in StoredMatches \cap {1}},
              {2}, {1}, {SeedDeadline})

DryRunNext ==
    \/ FeedChangeKickoff
    \/ FeedChangeContent
    \/ Bootstrap(FALSE)
    \/ Bootstrap(TRUE)
    \/ SmartStart(TRUE)
    \/ LookupDone
    \/ LookupFailed
    \/ Plan
    \/ DryUpsertTip
    \/ CommandRecompute

DryRunSpec == DryRunInit /\ [][DryRunNext]_vars

(***************************************************************************)
(* Imports of a feed whose goal events carry minutes but no running score. *)
(***************************************************************************)
\* goal lists: none; two valid minutes, the later one first; an invalid
\* minute before a valid one; a missing minute before the largest valid one;
\* only an invalid minute
FgGoalLists ==
    { << >>,
      <<GoalEvent(Some(40), None, None), GoalEvent(Some(5), None, None)>>,
      <<GoalEvent(Some(MaxMinute + 1), None, None), GoalEvent(Some(20), None, None)>>,
      <<GoalEvent(None, None, None), GoalEvent(Some(MaxMinute), None, None)>>,
      <<GoalEvent(Some(-1), None, None)>> }

\* both matches are in matchday 1, the later kickoff belongs to match 2; the
\* provider has one change left to make
FirstGoalInit ==
    /\ feedGroups = SeedGroups
    /\ \E g1 \in FgGoalLists, g2 \in FgGoalLists :
          feedMatches = [i \in MatchIds |->
              [BaseMatch(i) EXCEPT
                  !.goals = IF i = 1 THEN g1 ELSE g2,
                  !.matchDateTime = IF i = 1 THEN Some(600) ELSE Some(630)]]
    /\ feedLastChanged = [g \in Groups |-> MaxClock - 1]
    /\ clock = MaxClock - 1
    /\ db = EmptyDb
    /\ run = IdleRun
    /\ op = "none" /\ ret = 0 /\ tipArg = DefaultTip /\ resArg = None
    /\ bonusArg = 0 /\ fgmArg = None
    /\ TipsIdle

FgFeedChangeGoals ==
    \E i \in MatchIds, goals \in FgGoalLists :
        FeedChangeMatch(i, [feedMatches[i] EXCEPT !.goals = goals])

FirstGoalNext ==
    \/ FgFeedChangeGoals
    \/ FeedChangeKickoff
    \/ FeedMoveMatch
    \/ Bootstrap(FALSE)
    \/ SmartStart(FALSE)
    \/ LookupDone
    \/ Plan
    \/ ImportMatchdayLogged
    \/ SmartReturn

FirstGoalSpec == FirstGoalInit /\ [][FirstGoalNext]_vars

(***************************************************************************)
(* _extract_current_score applied to records with short lists of goal      *)
(* events and result entries.                                              *)
(***************************************************************************)
MaxList == 2

SeqsUpTo(S, n) == UNION {[1..k -> S] : k \in 0..n}

\* events with a running score and one without
ExtractGoalEvents ==
    { GoalEvent(Some(5), Some(1), Some(0)), GoalEvent(Some(70), Some(2), Some(1)),
      GoalEvent(Some(80), None, None) }

\* entries with or without a final label, an order id, and both points
ExtractResultEntries ==
    { ResultEntry(name, oid, p[1], p[2]) :
        name \in {"Endergebnis", "Halbzeit"},
        oid \in Opt({1, 2}),
        p \in {<<Some(2), Some(1)>>, <<Some(1), Some(0)>>, <<None, None>>} }

ExtractInit ==
    /\ ImportInit
    /\ op = "none" /\ ret = 0 /\ tipArg = DefaultTip /\ resArg = None
    /\ bonusArg = 0 /\ fgmArg = None
    /\ users = UserIds /\ tips = NoTips /\ bonusTips = NoBonusTips
    /\ entries = NoEntries /\ rc = NoWorkers
    /\ \E goals \in SeqsUpTo(ExtractGoalEvents, MaxList),
          results \in SeqsUpTo(ExtractResultEntries, MaxList) :
          call = [op |-> "none",
                  match_json |-> [BaseMatch(1) EXCEPT !.goals = goals,
                                                      !.matchResults = results],
                  ret |-> None]

CallExtractCurrentScore ==
    /\ call.op = "none"
    /\ call' = [call EXCEPT !.op = "_extract_current_score",
                            !.ret = _extract_current_score(call.match_json)]
    /\ UNCHANGED <<importVars, scoreVars, users, tips, bonusTips, entries, rc>>

ExtractNext == CallExtractCurrentScore

ExtractSpec == ExtractInit /\ [][ExtractNext]_vars

(***************************************************************************)
(* The Matchday upsert of bootstrap_season and that of update_season_smart *)
(* applied to the same store, group record and matches; the provider names *)
(* groups with padded and with empty names as well.                        *)
(***************************************************************************)
MatchdayGroupNames == {"R", " A ", "A", ""}

\* the feed's matches are spread over the matchdays or all in matchday 1, the
\* kickoff of match 1 may be unreadable, and the store is the bootstrap of
\* that feed or of the feed before match 1 had a kickoff
MatchdayInit ==
    /\ \E spread \in BOOLEAN, k \in Opt(Kickoffs), stored \in BOOLEAN :
          LET feed == [i \in MatchIds |->
                          IF i = 1
                          THEN [(IF spread THEN SeedFeed[i] ELSE BaseMatch(i))
                                   EXCEPT !.matchDateTime = k]
                          ELSE IF spread THEN SeedFeed[i] ELSE BaseMatch(i)]
               before == [feed EXCEPT ![1].matchDateTime = None]
          IN  /\ feedMatches = feed
              /\ db = bootstrap_season(EmptyDb,
                          fetch_matches_season(IF stored THEN feed ELSE before),
                          fetch_available_groups(SeedGroups), FALSE, "none").db
    /\ feedGroups = SeedGroups
    /\ feedLastChanged = [g \in Groups |-> 0]
    /\ clock = 0
    /\ run = IdleRun
    /\ op = "none" /\ ret = 0 /\ tipArg = DefaultTip /\ resArg = None
    /\ bonusArg = 0 /\ fgmArg = None
    /\ TipsIdle

MatchdayFeedRenameGroup ==
    \E g \in Groups, n \in MatchdayGroupNames :
        /\ clock < MaxClock
        /\ n # feedGroups[g]
        /\ clock' = clock + 1
        /\ feedGroups' = [feedGroups EXCEPT ![g] = n]
        /\ feedLastChanged' = [feedLastChanged EXCEPT ![g] = clock + 1]
        /\ UNCHANGED <<feedMatches, db, run, scoreVars, tipVars>>

\* the groups-loop body of bootstrap_season and _ensure_matchday, each run on
\* the store as it is, for the group record and the matches the feed serves
CallMatchdayUpserts ==
    \E g \in Groups :
        LET group_json == fetch_available_groups(feedGroups)[g]
            st == NewState(db, NewSummary)
        IN  /\ call' = [op |-> "upsert_matchday", gid |-> g,
                        group_json |-> group_json,
                        before |-> db.matchdays[g],
                        bootstrap |->
                            BootstrapGroupStep(st, fetch_matches_season(feedMatches),
                                               group_json).db.matchdays[g],
                        smart |->
                            _ensure_matchday(st, group_json,
                                fetch_matches_matchday(feedMatches, g)).st.db.matchdays[g]]
            /\ UNCHANGED <<importVars, scoreVars, users, tips, bonusTips, entries, rc>>

MatchdayNext ==
    \/ MatchdayFeedRenameGroup
    \/ FeedChangeKickoff
    \/ Bootstrap(FALSE)
    \/ CallMatchdayUpserts

MatchdaySpec == MatchdayInit /\ [][MatchdayNext]_vars

(***************************************************************************)
(* Imports of a feed whose records may reference what the import has not   *)
(* upserted: a team object that is missing or has no teamId, a matchday    *)
(* ordinal that the list of groups does not have, an unreadable kickoff.   *)
(***************************************************************************)
\* the provider has one change left to make
IntegrityInit ==
    /\ feedGroups = [g \in Groups |-> "R"]
    /\ feedMatches = [i \in MatchIds |-> BaseMatch(i)]
    /\ feedLastChanged = [g \in Groups |-> MaxClock - 1]
    /\ clock = MaxClock - 1
    /\ db = EmptyDb
    /\ run = IdleRun
    /\ TipsIdle
    /\ op = "none" /\ ret = 0 /\ tipArg = DefaultTip /\ resArg = None
    /\ bonusArg = 0 /\ fgmArg = None

\* team1 or team2 of a record becomes null (not a dict), loses its teamId, or
\* names another team
IntegrityFeedChangeTeam ==
    \E i \in MatchIds, t \in {None, Some(TeamJsonNoId(1)), Some(TeamJsonB(1))} :
        \/ FeedChangeMatch(i, [feedMatches[i] EXCEPT !.team1 = t])
        \/ FeedChangeMatch(i, [feedMatches[i] EXCEPT !.team2 = t])

\* a record names a matchday ordinal that getavailablegroups does not list
IntegrityFeedChangeOrdinal ==
    \E i \in MatchIds :
        FeedChangeMatch(i, [feedMatches[i] EXCEPT !.group = Some(MaxGroup + 1)])

IntegrityNext ==
    \/ IntegrityFeedChangeTeam
    \/ IntegrityFeedChangeOrdinal
    \/ FeedChangeKickoff
    \/ FeedMoveMatch
    \/ Bootstrap(FALSE)
    \/ SmartStart(FALSE)
    \/ LookupDone
    \/ Plan
    \/ ImportMatchday
    \/ SmartReturn

IntegritySpec == IntegrityInit /\ [][IntegrityNext]_vars

(***************************************************************************)
(* Runs on a feed whose matches are spread over the matchdays and carry    *)
(* goal events, while the provider moves a match to another matchday.      *)
(***************************************************************************)
MovedGoalLists == { << >>, <<GoalEvent(Some(5), None, None)>> }

\* the provider has one change left to make
MovedMatchInit ==
    /\ feedGroups = SeedGroups
    /\ \E goals \in [MatchIds -> MovedGoalLists] :
          feedMatches = [i \in MatchIds |-> [SeedFeed[i] EXCEPT !.goals = goals[i]]]
    /\ feedLastChanged = [g \in Groups |-> MaxClock - 1]
    /\ clock = MaxClock - 1
    /\ db = EmptyDb
    /\ run = IdleRun
    /\ op = "none" /\ ret = 0 /\ tipArg = DefaultTip /\ resArg = None
    /\ bonusArg = 0 /\ fgmArg = None
    /\ TipsIdle

MovedMatchNext ==
    \/ FeedMoveMatch
    \/ FeedChangeKickoff
    \/ Bootstrap(FALSE)
    \/ SmartStart(FALSE)
    \/ LookupDone
    \/ Plan
    \/ ImportMatchday
    \/ SmartReturn

MovedMatchSpec == MovedMatchInit /\ [][MovedMatchNext]_vars

(***************************************************************************)
(* The import command invoked again and again, one invocation at a time:   *)
(* handle runs the import and, when should_recompute holds, the recompute, *)
(* before the next invocation starts.                                      *)
(***************************************************************************)
CommandInit == SeededInit

\* handle of the previous invocation has run to its end
HandleEnded ==
    ~(/\ run.pc = "idle" /\ run.status = "returned"
      /\ should_recompute(run) /\ ~run.recomputed)

CommandBootstrap(dry_run) == HandleEnded /\ Bootstrap(dry_run)

CommandSmartStart(dry_run) == HandleEnded /\ SmartStart(dry_run)

CommandUpsertTip ==
    UpsertTip({Some(u) : u \in users \cap {1}}, {Some(m) : m \in StoredMatches \cap {1}},
              {2}, {1}, {SeedDeadline})

CommandNext ==
    \/ FeedChangeKickoff
    \/ CommandUpsertTip
    \/ CommandBootstrap(FALSE)
    \/ CommandBootstrap(TRUE)
    \/ CommandSmartStart(FALSE)
    \/ CommandSmartStart(TRUE)
    \/ LookupDone
    \/ Plan
    \/ ImportMatchday
    \/ SmartReturn
    \/ CommandRecompute

\* handle is sequential code: its recompute step is taken when it is due
CommandSpec == CommandInit /\ [][CommandNext]_vars /\ WF_vars(CommandRecompute)

\* C1: with a recorded result, score_tip is 5 iff both values match; otherwise
\* it is 2 iff the goal differences have the same sign; otherwise 0.
SameSign(x, y) == (x > 0 /\ y > 0) \/ (x < 0 /\ y < 0) \/ (x = 0 /\ y = 0)

ResultKnown ==
    /\ IsSome(resArg)
    /\ IsSome(Get(resArg).home_goals)
    /\ IsSome(Get(resArg).away_goals)

C1_ScoreTipContract ==
    (op = "score_tip" /\ ResultKnown) =>
        LET ph == tipArg.home_goals_predicted
            pa == tipArg.away_goals_predicted
            ah == Get(Get(resArg).home_goals)
            aa == Get(Get(resArg).away_goals)
            exact == ph = ah /\ pa = aa
        IN  /\ (ret = 5) <=> exact
            /\ ~exact => ((ret = 2) <=> SameSign(ph - pa, ah - aa))
            /\ (~exact /\ ~SameSign(ph - pa, ah - aa)) => ret = 0

C1_Witness ==
    /\ op = "score_tip"
    /\ tipArg = [home_goals_predicted |-> 2, away_goals_predicted |-> 1]
    /\ resArg = Some([home_goals |-> Some(3), away_goals |-> Some(0)])
    /\ ret = 2

\* C2: score_tip is 0 for every prediction when the match has no MatchResult
\* or when the result's home or away goal value is null.
C2_NoResultScoresZero ==
    (op = "score_tip" /\ ~ResultKnown) => ret = 0

C2_Witness ==
    /\ op = "score_tip"
    /\ tipArg = [home_goals_predicted |-> 2, away_goals_predicted |-> 0]
    /\ resArg = Some([home_goals |-> Some(2), away_goals |-> None])
    /\ ret = 0

\* C3: score_matchday_bonus is 3 when the predicted minute equals the recorded
\* first-goal minute (any minute in 0..130), 0 when they differ, and 0 when the
\* matchday has no first-goal minute.
C3_BonusContract ==
    op = "score_matchday_bonus" =>
        /\ (IsSome(fgmArg) /\ Get(fgmArg) = bonusArg) => ret = 3
        /\ (IsSome(fgmArg) /\ Get(fgmArg) # bonusArg) => ret = 0
        /\ IsNone(fgmArg) => ret = 0

C3_Witness ==
    /\ op = "score_matchday_bonus"
    /\ bonusArg = 130
    /\ fgmArg = Some(130)
    /\ ret = 3

(***************************************************************************)
(* Properties of the importer.                                             *)
(***************************************************************************)
\* the run last started has ended, by returning or by raising, without a
\* failed feed request, and the feed is as it was when the run started
RunEndedOnCurrentFeed ==
    /\ run.pc = "idle"
    /\ run.mode \in {"bootstrap", "smart"}
    /\ ~run.dry_run
    /\ run.clean
    /\ run.status \in {"returned", "raised"}
    /\ run.startVer = clock

\* the record carries everything a match loop reads before it stores the match
RecordComplete(m) ==
    /\ IsSome(_match_id(m))
    /\ IsSome(_kickoff_at(m))
    /\ IsSome(m.team1) /\ IsSome(m.team2)
    /\ IsSome(_extract_team_fields(Get(m.team1)))
    /\ IsSome(_extract_team_fields(Get(m.team2)))

\* C4: after any bootstrap or smart run, a stored match has a MatchResult row
\* if and only if the feed currently reports a score for it.
C4_ResultIffFeedScore ==
    RunEndedOnCurrentFeed =>
        \A i \in MatchIds :
            LET m == feedMatches[i]
            IN  (RecordComplete(m) /\ IsSome(db.matches[Get(_match_id(m))])) =>
                    (IsSome(db.results[Get(_match_id(m))])
                        <=> IsSome(_extract_current_score(m)))

\* C5: a bootstrap (respectively smart) run that follows a run through the same
\* entry point on unchanged feed content leaves every stored row as that run
\* left it, however many such runs follow.
C5_RerunLeavesStore ==
    [][(run'.after # "none" /\ run'.clean /\ run'.startVer = clock') => db' = db]_vars

C5_Witness ==
    /\ run.mode = "smart"
    /\ run.after = "returned"
    /\ run.pc = "idle" /\ run.status = "returned" /\ run.clean
    /\ run.startVer = clock
    /\ IsSome(db.matches[1])
    /\ IsSome(StoredStamp(db, 1))

\* C6: a second bootstrap_season on identical feed content reports zero creates
\* and zero updates of teams, matchdays, matches and results in its summary.
C6_SecondBootstrapCountsNothing ==
    (/\ run.mode = "bootstrap" /\ run.pc = "idle"
     /\ run.after = "returned" /\ run.status = "returned" /\ run.clean) =>
        /\ run.summary.teams_created = 0
        /\ run.summary.teams_updated = 0
        /\ run.summary.groups_imported = 0
        /\ run.summary.matches_created = 0
        /\ run.summary.matches_updated = 0
        /\ run.summary.results_created = 0
        /\ run.summary.results_updated = 0

\* C7: in update_season_smart a matchday whose change-timestamp was fetched is
\* planned if and only if it has no stored stamp or the fetched timestamp is
\* strictly newer than the stored stamp.
JustPlanned == run.mode = "smart" /\ run.pc = "import" /\ run.idx = 1

IsPlanned(gid) == \E k \in 1..Len(run.planned) : run.planned[k].gid = gid

C7_PlannedIffStrictlyNewer ==
    JustPlanned =>
        \A k \in 1..Len(run.last_changed_map) :
            LET e == run.last_changed_map[k]
                stored == StoredStamp(db, e.gid)
            IN  IsPlanned(e.gid) <=> (IsNone(stored) \/ e.dt > Get(stored))

C7_Witness ==
    /\ JustPlanned
    /\ \E k \in 1..Len(run.last_changed_map) :
          LET e == run.last_changed_map[k]
          IN  /\ StoredStamp(db, e.gid) = Some(e.dt)
              /\ ~IsPlanned(e.gid)
    /\ \E k \in 1..Len(run.last_changed_map) :
          LET e == run.last_changed_map[k]
          IN  /\ IsSome(StoredStamp(db, e.gid))
              /\ e.dt > Get(StoredStamp(db, e.gid))
              /\ IsPlanned(e.gid)

\* C8: after an update_season_smart run has finished, running it again
\* immediately with no feed change plans and re-imports no matchday.
RepeatedSmartPlanned ==
    /\ run.mode = "smart"
    /\ run.after = "returned"
    /\ run.clean
    /\ run.startVer = clock
    /\ run.pc = "import" \/ (run.pc = "idle" /\ run.status = "returned")

C9_FailedImportPersistsNothing ==
    [][(/\ run.pc = "import"
        /\ run'.pc = "idle"
        /\ run'.status \in {"raised", "killed"}) => db' = db]_vars

C9_Witness ==
    /\ run.mode = "smart"
    /\ run.pc = "idle"
    /\ run.status \in {"raised", "killed"}
    /\ run.rolledBack

\* C10: once a Matchday row exists, no bootstrap or smart-update run changes
\* its deadline_at (nor removes the row), even when the feed's earliest kickoff
\* for that matchday changes.
C10_DeadlineNeverChanges ==
    [][\A g \in Groups :
          IsSome(db.matchdays[g]) =>
              /\ IsSome(db'.matchdays[g])
              /\ Get(db'.matchdays[g]).deadline_at = Get(db.matchdays[g]).deadline_at]_vars

C10_Witness ==
    /\ run.mode = "smart" /\ run.pc = "idle" /\ run.status = "returned"
    /\ run.clean /\ run.startVer = clock
    /\ \E g \in Groups :
          LET earliest == _compute_earliest_kickoff(fetch_matches_matchday(feedMatches, g))
          IN  /\ IsSome(db.matchdays[g])
              /\ StoredStamp(db, g) = Some(feedLastChanged[g])
              /\ IsSome(earliest)
              /\ Get(db.matchdays[g]).deadline_at
                    # compute_deadline_before_kickoff(Get(earliest))

\* C11: in update_season_smart, a failure while fetching or importing one
\* planned matchday is contained to that matchday: the iteration over the
\* planned matchdays goes on with the next one and the run does not raise.
\* The steps meant are the run's own (run' # run), not the provider's. (A step that terminates the process is not a failure the run could contain.)
C11_FailureContainedToMatchday ==
    [][(/\ run.pc = "import"
        /\ run.idx <= Len(run.planned)
        /\ run' # run
        /\ run'.status # "killed")
          => /\ run'.status # "raised"
             /\ run'.pc = "import"
             /\ run'.planned = run.planned
             /\ run'.idx = run.idx + 1]_vars

\* C12: a record that lacks a required extraction field is skipped and never
\* aborts the run: a bootstrap or smart run over a feed with such a record
\* returns, and every complete record the run covers is stored. (A smart run
\* on a store without the season raises before it reads any record.)
RunCovers(i) ==
    \/ run.mode = "bootstrap"
    \/ \E k \in 1..Len(run.planned) : run.planned[k].gid = feedMatches[i].pgroup

C12_IncompleteRecordSkipped ==
    (/\ RunEndedOnCurrentFeed
     /\ run.mode = "smart" => (IsSome(db.league) /\ db.season)
     /\ \E i \in MatchIds : ~RecordComplete(feedMatches[i]))
        => /\ run.status = "returned"
           /\ \A i \in MatchIds :
                 (RecordComplete(feedMatches[i]) /\ RunCovers(i))
                     => IsSome(db.matches[i])

(***************************************************************************)
(* Properties of the tip services.                                         *)
(***************************************************************************)
\* the call last made and the deadline it was checked against
CallIsTip == call.op = "upsert_tip"
CallIsBonus == call.op = "upsert_matchday_bonus_tip"
CallDeadline ==
    IF CallIsTip THEN DeadlineOfMatch(db, Get(call.target))
    ELSE Get(db.matchdays[Get(call.target)]).deadline_at
\* the arguments pass every check but the deadline's
CallWellFormed ==
    /\ call.op # "none"
    /\ IsSome(call.user) /\ IsSome(call.target)
    /\ CallIsTip => (call.values[1] >= 0 /\ call.values[2] >= 0)
    /\ CallIsBonus => (call.values[1] >= 0 /\ call.values[1] <= MaxMinute)

\* C18: a tip or bonus-tip upsert at a time equal to the owning matchday's
\* deadline_at is accepted, and at any later time it is rejected (the other
\* arguments being valid).
C18_DeadlineInclusive ==
    CallWellFormed =>
        /\ call.now = CallDeadline => ~call.raised
        /\ call.now > CallDeadline => call.raised
        /\ ~call.raised <=> is_editable(CallDeadline, call.now)

C18_Witness ==
    /\ CallWellFormed
    /\ CallIsBonus
    /\ call.now = CallDeadline
    /\ call.created
    /\ \E u \in UserIds : IsSome(tips[u][1])

\* some argument of the call last made is one the services reject
CallInvalid ==
    /\ call.op # "none"
    /\ \/ IsNone(call.user)
       \/ IsNone(call.target)
       \/ CallIsTip /\ (call.values[1] < 0 \/ call.values[2] < 0)
       \/ CallIsBonus /\ (call.values[1] < 0 \/ call.values[1] > MaxMinute)
       \/ IsSome(call.target) /\ call.now > CallDeadline

\* C19: an upsert with a negative predicted goal value, a minute outside
\* 0..130, a missing user or match/matchday, or a time after the deadline is
\* rejected with a validation error and leaves every stored Tip and
\* MatchdayBonusTip unchanged.
C19_InvalidUpsertRejected ==
    [][(call' # call /\ CallInvalid')
          => /\ call'.raised
             /\ tips' = tips
             /\ bonusTips' = bonusTips]_vars

C19_Witness ==
    /\ CallIsBonus
    /\ call.raised
    /\ IsSome(call.user) /\ IsSome(call.target)
    /\ call.values[1] = MaxMinute + 1
    /\ call.now <= CallDeadline
    /\ IsSome(tips[Get(call.user)][1])
    /\ IsSome(bonusTips[Get(call.user)][Get(call.target)])

\* the values stored under the key of call c, as the call passes them
StoredValues(c, t, b) ==
    IF c.op = "upsert_tip"
    THEN LET row == t[Get(c.user)][Get(c.target)]
         IN  IF IsNone(row) THEN None
             ELSE Some(<<Get(row).home_goals_predicted, Get(row).away_goals_predicted>>)
    ELSE LET row == b[Get(c.user)][Get(c.target)]
         IN  IF IsNone(row) THEN None ELSE Some(<<Get(row)>>)

\* C20: an accepted upsert that resubmits the stored values reports created =
\* false and updated = false and changes nothing; one with different values
\* reports updated = true (and stores them), and a first upsert reports
\* created = true.
C20_UpsertReportsWhatItDid ==
    [][(call' # call /\ call'.op # "none" /\ ~call'.raised)
          => LET before == StoredValues(call', tips, bonusTips)
                 after == StoredValues(call', tips', bonusTips')
             IN  /\ after = Some(call'.values)
                 /\ before = Some(call'.values)
                       => /\ ~call'.created /\ ~call'.updated
                          /\ tips' = tips /\ bonusTips' = bonusTips
                 /\ (IsSome(before) /\ before # Some(call'.values))
                       => call'.updated /\ ~call'.created
                 /\ IsNone(before) => call'.created /\ ~call'.updated]_vars

C20_Witness ==
    /\ CallIsTip
    /\ ~call.raised /\ ~call.created /\ ~call.updated
    /\ StoredValues(call, tips, bonusTips) = Some(call.values)

(***************************************************************************)
(* Properties of the leaderboard.                                          *)
(***************************************************************************)
\* the users with at least one tip or bonus tip
HasTipped(u) ==
    \/ \E m \in MatchIds : IsSome(tips[u][m])
    \/ \E g \in Groups : IsSome(bonusTips[u][g])

\* C14: after recompute_leaderboard_for_season, every existing user with at
\* least one tip or bonus tip has an entry whose tips_points and bonus_points
\* equal the sums of score_tip and score_matchday_bonus over the user's tips
\* and bonus tips; users whose account no longer exists have no entry.
C14_EntriesEqualSums ==
    call.op = "recompute" =>
        \A u \in UserIds :
            /\ (u \in users /\ HasTipped(u))
                  => /\ IsSome(entries[u])
                     /\ Get(entries[u])
                           = compute_user_score_for_season(tips, bonusTips, db, u)
            /\ u \notin users => IsNone(entries[u])

C14_Witness ==
    /\ call.op = "recompute"
    /\ users # UserIds
    /\ \E u \in users :
          /\ IsSome(entries[u])
          /\ Get(entries[u]).tips_points = EXACT_SCORE_POINTS + TENDENCY_POINTS
          /\ Get(entries[u]).bonus_points = FIRST_GOAL_MINUTE_POINTS

\* C15: recompute returns the number of entries it created plus the number it
\* updated and leaves untouched every entry whose stored subtotals already
\* equal the computed ones; a second recompute with nothing changed in between
\* returns 0 and writes no entry.
C15_ReturnCountsWrites ==
    [][call'.op = "recompute" =>
          /\ call'.created = {u \in UserIds : IsNone(entries[u]) /\ IsSome(entries'[u])}
          /\ call'.updated = {u \in UserIds : /\ IsSome(entries[u])
                                               /\ entries'[u] # entries[u]}
          /\ call'.ret = Cardinality(call'.created) + Cardinality(call'.updated)
          /\ \A u \in UserIds :
                (/\ IsSome(entries[u])
                 /\ Get(entries[u])
                       = compute_user_score_for_season(tips, bonusTips, db, u))
                    => /\ u \notin call'.created \cup call'.updated
                       /\ entries'[u] = entries[u]
          /\ call.op = "recompute"
                => /\ call'.ret = 0
                   /\ call'.created \cup call'.updated = {}
                   /\ entries' = entries]_vars

C15_Witness ==
    /\ call.op = "recompute"
    /\ call.ret = 0
    /\ \E u \in users :
          /\ IsSome(entries[u])
          /\ Get(entries[u]).tips_points > 0
    /\ \E u \in users : HasTipped(u) /\ IsSome(entries[u])
                            /\ Get(entries[u]).tips_points = 0

\* C17: the rows of compute_leaderboard_for_season are sorted by total points
\* descending, then tips_points descending, then user id ascending, and no
\* two rows compare equal under this ordering; there is one row per entry.
C17_LeaderboardOrdered ==
    LET rows == compute_leaderboard_for_season(entries)
    IN  /\ Len(rows) = Cardinality({u \in UserIds : IsSome(entries[u])})
        /\ \A i, j \in 1..Len(rows) :
              i < j =>
                \/ rows[i].points > rows[j].points
                \/ /\ rows[i].points = rows[j].points
                   /\ rows[i].tips_points > rows[j].tips_points
                \/ /\ rows[i].points = rows[j].points
                   /\ rows[i].tips_points = rows[j].tips_points
                   /\ rows[i].user_id < rows[j].user_id

C17_Witness ==
    LET rows == compute_leaderboard_for_season(entries)
    IN  /\ Len(rows) >= 2
        /\ rows[1].points = rows[2].points
        /\ rows[1].tips_points > rows[2].tips_points
        /\ rows[1].user_id > rows[2].user_id

\* C16: two recompute runs for the same season that overlap both complete
\* without error (no duplicate (season, user) entry is attempted), and once
\* both are over every entry equals the subtotals computed from the tips and
\* results current at the end (no update is lost).
C16_ConcurrentRecomputeSafe ==
    /\ \A w \in Workers : rc[w].status # "raised"
    /\ ((\A w \in Workers : rc[w].pc = "done") /\ call.op = "recompute")
          => \A u \in users :
                HasTipped(u)
                    => /\ IsSome(entries[u])
                       /\ Get(entries[u])
                             = compute_user_score_for_season(tips, bonusTips, db, u)

\* the import command in smart mode has ended on the feed as it is now, and
\* nothing was submitted after its recompute
SmartCommandDone ==
    /\ run.mode = "smart"
    /\ run.pc = "idle"
    /\ run.clean
    /\ run.startVer = clock
    /\ \/ run.status = "raised"
       \/ run.status = "returned" /\ run.recomputed /\ call.op = "recompute"

\* C13: when the feed reports match m as 2-1 and a user predicted 2-1, after
\* import and recompute the stored result is 2-1 and the user's entry has
\* tips_points = 5; when the feed has corrected the score to 1-1 and the
\* command has run again, the stored result is 1-1 and tips_points is 0.
C13_EndToEndScore ==
    \A score \in FinalScores :
        (/\ SmartCommandDone
         /\ _extract_current_score(feedMatches[1]) = Some(score)
         /\ 1 \in users
         /\ tips[1][1] = Some([home_goals_predicted |-> 2, away_goals_predicted |-> 1]))
            => /\ run.status = "returned"
               /\ db.results[1] = Some(ResultRowOf(score[1], score[2]))
               /\ IsSome(entries[1])
               /\ Get(entries[1]).tips_points
                     = IF score = <<2, 1>> THEN EXACT_SCORE_POINTS ELSE 0


(***************************************************************************)
(* Properties of the feed client.                                          *)
(***************************************************************************)
ClientOps ==
    {"fetch_available_groups", "fetch_matches_season", "fetch_matches_matchday",
     "fetch_last_changed"}

\* the request of the last client call failed: no connection, a timeout, a
\* status outside 2xx, or a body that is not the endpoint's document
FeedRequestFailed ==
    /\ call.op \in ClientOps
    /\ \/ IsSome(call.transport.exc)
       \/ call.transport.status \notin 200..299
       \/ call.transport.body # "json"

\* C21: every failed feed request is raised by the client as the same single
\* error kind (RuntimeError), after exactly one attempt.
C21_FeedFailureUniform ==
    FeedRequestFailed => (call.raised = Some("RuntimeError") /\ call.requests = 1)


(***************************************************************************)
(* Properties of the smart update's lookups, dry runs and stamps.          *)
(***************************************************************************)
LookedUp == {run.last_changed_map[k].gid : k \in 1..Len(run.last_changed_map)}

\* C22: in update_season_smart a failed change-timestamp lookup leaves the
\* other lookups collected and planned as usual, and the matchday whose
\* lookup failed is not planned, and no step of the run changes its row, its
\* stamp, or the rows of the matches the feed has in it.
C22_FailedLookupSkipsOnlyItsMatchday ==
    [][(run.mode = "smart" /\ run.pc = "import") =>
          /\ LookedUp = Groups \ run.errors
          /\ \A gid \in run.errors : ~IsPlanned(gid)
          /\ JustPlanned =>
                \A k \in 1..Len(run.last_changed_map) :
                    LET e == run.last_changed_map[k]
                    IN  IsPlanned(e.gid) <=> HasChanged(StoredStamp(db, e.gid), e.dt)
          /\ \A gid \in run.errors :
                /\ db'.matchdays[gid] = db.matchdays[gid]
                /\ \A i \in MatchIds :
                      feedMatches[i].pgroup = gid =>
                          /\ db'.matches[i] = db.matches[i]
                          /\ db'.results[i] = db.results[i]]_vars

\* a run has imported a planned matchday while the lookup of another
\* matchday, which the feed has changed, had failed
C22_Witness ==
    /\ run.mode = "smart" /\ run.pc = "import"
    /\ run.idx > 1
    /\ run.summary.groups_imported > 0
    /\ \E gid \in run.errors :
          HasChanged(StoredStamp(db, gid), feedLastChanged[gid])


\* C23: update_season_smart for a league or season that is not in the store
\* ends in one raised error, having issued no feed request and written
\* nothing.
C23_MissingSeasonRaisesFirst ==
    [][(/\ run.pc = "idle" /\ run' # run /\ run'.mode = "smart"
        /\ IsNone(db.league) \/ ~db.season)
          => /\ run'.status = "raised" /\ run'.pc = "idle"
             /\ ~run'.requested
             /\ db' = db]_vars

C23_Witness ==
    /\ run.mode = "smart" /\ run.status = "raised" /\ run.pc = "idle"
    /\ ~run.requested
    /\ IsNone(db.league) \/ ~db.season


\* C24: no step of a bootstrap_season or update_season_smart run with dry_run
\* set changes the store, and the import command does not recompute the
\* leaderboard after it.
C24_DryRunWritesNothing ==
    [][(run'.dry_run /\ run' # run)
          => /\ db' = db
             /\ entries' = entries
             /\ ~run'.recomputed]_vars

\* a dry smart run has returned with a changed matchday planned while a tip
\* waits to be scored
C24_Witness ==
    /\ run.dry_run /\ run.mode = "smart" /\ run.status = "returned"
    /\ run.summary.groups_with_matches > 0
    /\ IsSome(tips[1][1]) /\ IsNone(entries[1])
    /\ \E g \in Groups : HasChanged(StoredStamp(db, g), feedLastChanged[g])


(***************************************************************************)
(* Properties of the first goal of a matchday.                             *)
(***************************************************************************)
\* the minute of the first event of a goal list, in list order, that has a
\* minute in 0..130
ValidEvent(goals, k) ==
    /\ IsSome(goals[k].matchMinute)
    /\ Get(goals[k].matchMinute) \in 0..MaxMinute

FeedFirstGoals(g) ==
    { [goal_at |-> Get(feedMatches[i].matchDateTime) + Get(feedMatches[i].goals[k].matchMinute),
       match |-> i,
       minute |-> Get(feedMatches[i].goals[k].matchMinute)] :
        <<i, k>> \in
          { <<i, k>> \in MatchIds \X (1..2) :
              /\ feedMatches[i].pgroup = g
              /\ IsSome(feedMatches[i].matchDateTime)
              /\ k \in 1..Len(feedMatches[i].goals)
              /\ ValidEvent(feedMatches[i].goals, k)
              /\ \A j \in 1..(k - 1) : ~ValidEvent(feedMatches[i].goals, j) } }

FirstGoalFields(md) ==
    <<md.first_goal_at, md.first_goal_match, md.first_goal_minute>>

FirstGoalFieldsBefore(g) ==
    IF IsSome(db.matchdays[g]) THEN FirstGoalFields(Get(db.matchdays[g]))
    ELSE <<None, None, None>>

\* the first-goal fields of the stored matchday g agree with the feed
FirstGoalAgrees(md, g) ==
    IF FeedFirstGoals(g) = {}
    THEN FirstGoalFields(md) = <<None, None, None>>
    ELSE \E c \in FeedFirstGoals(g) :
            /\ \A o \in FeedFirstGoals(g) : c.goal_at <= o.goal_at
            /\ FirstGoalFields(md) = <<Some(c.goal_at), Some(c.match), Some(c.minute)>>

\* this step is a completed _import_one_matchday of matchday g
ImportsMatchday(g) ==
    /\ run.pc = "import"
    /\ run.idx <= Len(run.planned)
    /\ run.planned[run.idx].gid = g
    /\ run'.pc = "import" /\ run'.idx = run.idx + 1
    /\ StoredStamp(db', g) = Some(run.planned[run.idx].dt)

\* this step is a completed bootstrap_season
Bootstraps ==
    /\ run' # run /\ run'.mode = "bootstrap" /\ run'.status = "returned"

\* C25: after an import of a matchday its first_goal_at, first_goal_match and
\* first_goal_minute are those of the minimum of kickoff + first valid event
\* minute over the matchday's matches in the feed, null when there is none,
\* and the Matchday is saved only if one of the three changed.
C25_FirstGoalIsFeedMinimum ==
    [][/\ \A g \in Groups :
             ImportsMatchday(g) =>
                 /\ FirstGoalAgrees(Get(db'.matchdays[g]), g)
                 /\ call'.first_goal_saved =>
                       FirstGoalFields(Get(db'.matchdays[g])) # FirstGoalFieldsBefore(g)
       /\ Bootstraps =>
             \A g \in Groups :
                 (\E i \in MatchIds : /\ feedMatches[i].pgroup = g
                                      /\ IsSome(feedMatches[i].matchDateTime))
                     => FirstGoalAgrees(Get(db'.matchdays[g]), g)]_vars

\* the stored first goal of matchday 1 is that of match 2, whose kickoff is
\* later but whose first valid event is earlier in absolute time, and a
\* repeated import did not save the row
C25_Witness ==
    /\ call.op = "_import_one_matchday" /\ call.gid = 1 /\ ~call.first_goal_saved
    /\ run.mode = "smart"
    /\ IsSome(db.matchdays[1])
    /\ Get(db.matchdays[1]).first_goal_match = Some(2)
    /\ Cardinality(FeedFirstGoals(1)) = 2


(***************************************************************************)
(* Properties of _extract_current_score.                                   *)
(***************************************************************************)
Extracted == call.op = "_extract_current_score"

LastGoal == call.match_json.goals[Len(call.match_json.goals)]

HasRunningScore(e) == IsSome(e.scoreTeam1) /\ IsSome(e.scoreTeam2)

RunningScore(e) ==
    IF HasRunningScore(e) THEN Some(<<Get(e.scoreTeam1), Get(e.scoreTeam2)>>) ELSE None

PointsOf(r) ==
    IF HasBothPoints(r) THEN Some(<<Get(r.pointsTeam1), Get(r.pointsTeam2)>>) ELSE None

\* i is, among the entries with indices in S, one with the highest
\* resultOrderID, and the latest of those
HighestLatest(results, S, i) ==
    /\ i \in S
    /\ \A j \in S : \/ OidInt(results[j]) < OidInt(results[i])
                    \/ (OidInt(results[j]) = OidInt(results[i]) /\ j <= i)

\* the score the result entries give: the final-labelled entries that carry
\* both points come first
ScoreOfResults(results) ==
    LET All == 1..Len(results)
        Finals == {i \in All : IsFinalName(results[i].resultName)
                                 /\ HasBothPoints(results[i])}
    IN  IF Finals # {}
        THEN PointsOf(results[CHOOSE i \in Finals : HighestLatest(results, Finals, i)])
        ELSE IF All = {} THEN None
        ELSE PointsOf(results[CHOOSE i \in All : HighestLatest(results, All, i)])

\* C26 as stated: with a non-empty list of goal events the return value is
\* the running score of the last event, whatever matchResults holds.
C26_GoalsDecideScore ==
    (Extracted /\ call.match_json.goals # << >>) => call.ret = RunningScore(LastGoal)

\* C26: when the last goal event carries scoreTeam1 and scoreTeam2 the return
\* value is that running score whatever matchResults holds; when it does not,
\* the return value is the one the result entries give.
C26_LastGoalWithScoreDecides ==
    (Extracted /\ call.match_json.goals # << >>) =>
        IF HasRunningScore(LastGoal)
        THEN call.ret = RunningScore(LastGoal)
        ELSE call.ret = ScoreOfResults(call.match_json.matchResults)

\* the last event has a running score that differs from every result entry's
\* points, and a final entry is present
C26_Witness ==
    /\ Extracted
    /\ Len(call.match_json.goals) = 2
    /\ call.ret = Some(<<2, 1>>)
    /\ call.match_json.matchResults =
          <<ResultEntry("Endergebnis", Some(2), Some(1), Some(0))>>

\* C27 as stated: without goal events the return value is that of the
\* final-labelled entry with the highest resultOrderID if a final-labelled
\* entry exists, otherwise that of the entry with the highest resultOrderID,
\* the latest in the list on a tie.
C27_FinalLabelledFirst ==
    (Extracted /\ call.match_json.goals = << >>) =>
        LET results == call.match_json.matchResults
            All == 1..Len(results)
            Labelled == {i \in All : IsFinalName(results[i].resultName)}
        IN  IF Labelled # {}
            THEN \E i \in Labelled :
                    /\ \A j \in Labelled : OidInt(results[j]) <= OidInt(results[i])
                    /\ call.ret = PointsOf(results[i])
            ELSE IF All = {} THEN call.ret = None
            ELSE \E i \in All : /\ HighestLatest(results, All, i)
                                /\ call.ret = PointsOf(results[i])

\* C27: without goal events the return value is that of the final-labelled
\* entry with the highest resultOrderID among the final-labelled entries that
\* carry both points (the latest on a tie), if there is one; otherwise that of
\* the entry with the highest resultOrderID, the latest in the list on a tie,
\* and no score when that entry lacks a point value.
C27_FinalWithPointsFirst ==
    (Extracted /\ call.match_json.goals = << >>) =>
        call.ret = ScoreOfResults(call.match_json.matchResults)

\* a final entry with points wins against a later non-final entry with a
\* higher order id
C27_Witness ==
    /\ Extracted
    /\ call.match_json.goals = << >>
    /\ call.match_json.matchResults =
          <<ResultEntry("Endergebnis", Some(1), Some(2), Some(1)),
            ResultEntry("Halbzeit", Some(2), Some(1), Some(0))>>
    /\ call.ret = Some(<<2, 1>>)


(***************************************************************************)
(* Properties that tie the importer's writes to the scoring engine.        *)
(***************************************************************************)
\* C28: when a run has imported a record whose score is (h, a), the
\* MatchResult row that score_tip reads for the match has home_goals = h and
\* away_goals = a, so a tip that predicts (h, a) scores the exact points.
C28_ImportedScoreIsScored ==
    (/\ RunEndedOnCurrentFeed
     /\ run.mode = "smart" => (IsSome(db.league) /\ db.season)
     /\ \A j \in MatchIds : RecordComplete(feedMatches[j]))
        => \A i \in MatchIds :
              LET score == _extract_current_score(feedMatches[i])
              IN  (RunCovers(i) /\ IsSome(score)) =>
                      /\ db.results[i] = Some(ResultRowOf(Get(score)[1], Get(score)[2]))
                      /\ score_tip([home_goals_predicted |-> Get(score)[1],
                                    away_goals_predicted |-> Get(score)[2]],
                                   db.results[i]) = EXACT_SCORE_POINTS


\* the store holds what the feed now serves for matchday g: the Match row of
\* every complete record, a MatchResult row exactly for the records with a
\* score, and the first-goal facts
FeedDataStored(g) ==
    /\ \A i \in MatchIds :
          LET m == feedMatches[i]
          IN  (m.pgroup = g /\ RecordComplete(m)) =>
                  /\ IsSome(db.matches[i])
                  /\ Get(db.matches[i]).matchday = g
                  /\ Get(db.matches[i]).kickoff_at = Get(_kickoff_at(m))
                  /\ Get(db.matches[i]).is_finished = _is_finished(m)
                  /\ Get(db.matches[i]).home_team = Get(Get(m.team1).teamId)
                  /\ Get(db.matches[i]).away_team = Get(Get(m.team2).teamId)
                  /\ IsSome(db.results[i]) <=> IsSome(_extract_current_score(m))
    /\ FirstGoalAgrees(Get(db.matchdays[g]), g)

\* C29: the stored stamp of a matchday is never newer than the feed's
\* change-timestamp, also when the feed changed between the lookup and the
\* fetch, and whenever the two are equal the data the feed serves for the
\* matchday is in the store.
C29_StampNeverAheadOfData ==
    \A g \in Groups :
        IsSome(StoredStamp(db, g)) =>
            /\ Get(StoredStamp(db, g)) <= feedLastChanged[g]
            /\ Get(StoredStamp(db, g)) = feedLastChanged[g] => FeedDataStored(g)

\* the lookup of a matchday saw the timestamp 0, the feed then moved match 1's
\* kickoff, and the import stored the new kickoff under the stamp 0
C29_Witness ==
    /\ run.mode = "smart" /\ run.pc = "import" /\ run.idx > 1
    /\ LET p == run.planned[run.idx - 1]
       IN  /\ p.dt = 0
           /\ StoredStamp(db, p.gid) = Some(0)
           /\ feedLastChanged[p.gid] > 0
           /\ feedMatches[1].pgroup = p.gid
           /\ feedMatches[1].matchDateTime = Some(630)
           /\ FeedDataStored(p.gid)


\* C30: a smart run whose feed requests succeed, on the feed as it is now,
\* leaves every stamped matchday re-imported: its stamp is the feed's
\* change-timestamp and its matches, results and first-goal facts are those
\* the feed serves.
C30_NeverClosedToReimport ==
    (/\ RunEndedOnCurrentFeed
     /\ run.mode = "smart"
     /\ IsSome(db.league) /\ db.season)
        => \A g \in Groups :
              IsSome(StoredStamp(db, g)) =>
                  /\ StoredStamp(db, g) = Some(feedLastChanged[g])
                  /\ FeedDataStored(g)



(***************************************************************************)
(* Properties of the order and the frame of the smart update.              *)
(***************************************************************************)
\* a step of the import loop of update_season_smart: an iteration or the
\* return after the last one
ImportLoopStep == run.mode = "smart" /\ run.pc = "import" /\ run' # run

\* C31: in update_season_smart no matchday import starts before every
\* change-timestamp lookup has finished or failed, and the planned matchdays
\* are imported one at a time in ascending ordinal order, whatever order the
\* lookups completed in: every iteration takes the next planned entry, whose
\* ordinal is above those of all entries before it, and writes no Matchday
\* row but that one.
C31_ImportsAfterLookupsInOrder ==
    [][ImportLoopStep =>
          /\ run.pending = {}
          /\ LookedUp \cup run.errors = Groups
          /\ \A k \in 1..Len(run.planned) : \A j \in 1..(k - 1) :
                run.planned[j].gid < run.planned[k].gid
          /\ run.idx <= Len(run.planned) =>
                /\ \A g \in Groups :
                      db'.matchdays[g] # db.matchdays[g] =>
                          g = run.planned[run.idx].gid
                /\ run'.pc = "import" =>
                      run'.idx = run.idx + 1 /\ run'.planned = run.planned]_vars

\* the lookup of matchday 2 completed before that of matchday 1, both were
\* planned, and matchday 1 has been imported before matchday 2
C31_Witness ==
    /\ run.mode = "smart" /\ run.pc = "import" /\ run.idx = 2
    /\ Len(run.last_changed_map) = 2
    /\ run.last_changed_map[1].gid = 2 /\ run.last_changed_map[2].gid = 1
    /\ Len(run.planned) = 2
    /\ run.planned[1].gid = 1 /\ run.planned[2].gid = 2
    /\ StoredStamp(db, 1) = Some(run.planned[1].dt)
    /\ StoredStamp(db, 2) # Some(run.planned[2].dt)



\* the Match row i belongs to matchday g in the store
BelongsTo(d, i, g) == IsSome(d.matches[i]) /\ Get(d.matches[i]).matchday = g

\* C32 as stated: no step of the import loop changes anything of a matchday
\* that is not planned in the run: its Matchday row and the Match and
\* MatchResult rows that belong to it are unchanged.
C32_UnplannedMatchdayUnchanged ==
    [][ImportLoopStep =>
          \A g \in Groups : ~IsPlanned(g) =>
              /\ db'.matchdays[g] = db.matchdays[g]
              /\ \A i \in MatchIds : BelongsTo(db, i, g) =>
                    /\ db'.matches[i] = db.matches[i]
                    /\ db'.results[i] = db.results[i]]_vars

\* C32, amended: the Matchday row of a matchday that is not planned is
\* unchanged, and so are the Match and MatchResult rows that belong to it,
\* except those of a match that the feed lists under the planned matchday
\* being imported.
C32_UnplannedUnchangedUnlessRelisted ==
    [][ImportLoopStep =>
          \A g \in Groups : ~IsPlanned(g) =>
              /\ db'.matchdays[g] = db.matchdays[g]
              /\ \A i \in MatchIds :
                    (/\ BelongsTo(db, i, g)
                     /\ ~(/\ run.idx <= Len(run.planned)
                          /\ feedMatches[i].pgroup = run.planned[run.idx].gid))
                      => /\ db'.matches[i] = db.matches[i]
                         /\ db'.results[i] = db.results[i]]_vars

\* a matchday with a stored match was looked up and not planned, and the run
\* has imported and stamped another matchday that has a match
C32_Witness ==
    /\ run.mode = "smart" /\ run.pc = "import" /\ run.idx > 1
    /\ StoredStamp(db, run.planned[run.idx - 1].gid) = Some(run.planned[run.idx - 1].dt)
    /\ \E i \in MatchIds : BelongsTo(db, i, run.planned[run.idx - 1].gid)
    /\ \E g \in LookedUp :
          /\ ~IsPlanned(g)
          /\ \E i \in MatchIds : BelongsTo(db, i, g)



(***************************************************************************)
(* Properties of the Matchday upsert.                                      *)
(***************************************************************************)
MatchdayUpserted == call.op = "upsert_matchday"

\* C33: for the same group record and the same matches, the Matchday upsert
\* of update_season_smart and that of bootstrap_season leave the Matchday row
\* with the same name and deadline (or both leave none), both when the row
\* is created and when it exists.
C33_SmartUpsertsMatchdayAsBootstrap ==
    MatchdayUpserted =>
        /\ IsSome(call.smart) <=> IsSome(call.bootstrap)
        /\ IsSome(call.smart) =>
              /\ Get(call.smart).name = Get(call.bootstrap).name
              /\ Get(call.smart).deadline_at = Get(call.bootstrap).deadline_at



(***************************************************************************)
(* Properties of the references a stored Match holds.                      *)
(***************************************************************************)
\* every stored Match references a stored Matchday and two stored Teams
NoDanglingMatch ==
    \A i \in MatchIds :
        IsSome(db.matches[i]) =>
            /\ Get(db.matches[i]).matchday \in Groups
            /\ IsSome(db.matchdays[Get(db.matches[i]).matchday])
            /\ IsSome(db.teams[Get(db.matches[i]).home_team])
            /\ IsSome(db.teams[Get(db.matches[i]).away_team])

\* the matchday the run stores record i under
MatchdayOfRecord(i) ==
    IF run.mode = "bootstrap" THEN Get(_group_order_id(feedMatches[i]))
    ELSE feedMatches[i].pgroup

\* record i carries what the match loop reads, and its teams and matchday
\* are in the store
Importable(i) ==
    /\ RecordComplete(feedMatches[i])
    /\ IsSome(_group_order_id(feedMatches[i]))
    /\ MatchdayOfRecord(i) \in Groups
    /\ IsSome(db.matchdays[MatchdayOfRecord(i)])

\* C34: no Match is ever stored referencing a Team or Matchday that is not in
\* the store; a match whose home team, away team or matchday was not upserted
\* is skipped on its own and the rest of the import proceeds: the run returns
\* and every other record it covers is stored.
C34_NoDanglingMatchSkippedAlone ==
    /\ NoDanglingMatch
    /\ (/\ RunEndedOnCurrentFeed
        /\ run.mode = "smart" => (IsSome(db.league) /\ db.season))
          => /\ run.status = "returned"
             /\ \A i \in MatchIds :
                   (RunCovers(i) /\ Importable(i)) =>
                       /\ IsSome(db.matches[i])
                       /\ Get(db.matches[i]).matchday = MatchdayOfRecord(i)



(***************************************************************************)
(* Properties of the deadline of a new Matchday.                           *)
(***************************************************************************)
\* the readable kickoffs of the records the feed has in matchday g
FeedKickoffs(g) ==
    {Get(_kickoff_at(feedMatches[i])) :
        i \in {j \in MatchIds : /\ feedMatches[j].pgroup = g
                                /\ IsSome(_kickoff_at(feedMatches[j]))}}

\* C35: a step of a bootstrap or smart run that creates a Matchday row gives
\* it the deadline 210 minutes before the earliest readable kickoff among the
\* matchday's matches; a matchday without a readable kickoff is not created.
C35_NewDeadlineFromEarliestKickoff ==
    [][\A g \in Groups :
          (IsNone(db.matchdays[g]) /\ IsSome(db'.matchdays[g])) =>
              /\ FeedKickoffs(g) # {}
              /\ \E k \in FeedKickoffs(g) :
                    /\ \A j \in FeedKickoffs(g) : k <= j
                    /\ Get(db'.matchdays[g]).deadline_at + 210 = k]_vars

\* a run has created matchday 1 from a feed in which one of its matches has
\* no readable kickoff and the other kicks off at 630, and has created no
\* row for matchday 2, which has no match
C35_Witness ==
    /\ run.status = "returned" /\ run.summary.groups_imported = 1
    /\ IsSome(db.matchdays[1]) /\ Get(db.matchdays[1]).deadline_at = 420
    /\ FeedKickoffs(1) = {630}
    /\ \E i \in MatchIds : feedMatches[i].pgroup = 1 /\ IsNone(_kickoff_at(feedMatches[i]))
    /\ FeedKickoffs(2) = {} /\ IsNone(db.matchdays[2])



(***************************************************************************)
(* Properties of the first-goal reference.                                 *)
(***************************************************************************)
\* no run is in progress and the last one completed
RunCompleted ==
    /\ run.pc = "idle" /\ run.status = "returned" /\ ~run.dry_run
    /\ run.mode \in {"bootstrap", "smart"}

\* C36: after any sequence of bootstrap and smart-update runs, a Matchday's
\* first_goal_match, when not null, references a stored Match that belongs to
\* that Matchday, also when the feed has moved a match to another matchday.
C36_FirstGoalMatchInMatchday ==
    RunCompleted =>
        \A g \in Groups :
            (IsSome(db.matchdays[g]) /\ IsSome(Get(db.matchdays[g]).first_goal_match))
                => BelongsTo(db, Get(Get(db.matchdays[g]).first_goal_match), g)



(***************************************************************************)
(* Properties of the absence of a score.                                   *)
(***************************************************************************)
\* the last goal event, or some entry of results, carries both values
SomeScoreCarried(goals, results) ==
    \/ goals # << >> /\ HasRunningScore(goals[Len(goals)])
    \/ \E i \in 1..Len(results) : HasBothPoints(results[i])

\* C37: _extract_current_score returns no score only when nothing in the
\* record yields both values: whenever the last goal event or at least one
\* matchResults entry carries both, a score is returned.
C37_NoScoreOnlyWhenNothingYields ==
    Extracted =>
        (SomeScoreCarried(call.match_json.goals, call.match_json.matchResults)
            => IsSome(call.ret))



(***************************************************************************)
(* Properties of the import command's recompute.                           *)
(***************************************************************************)
\* the import has returned its summary to handle
ImportReturned == run.pc = "idle" /\ run.status = "returned"

\* the mode is bootstrap, or the smart update planned a matchday, or a result
\* was created or updated
RecomputeCalledFor ==
    \/ run.mode = "bootstrap"
    \/ run.summary.groups_with_matches > 0
    \/ run.summary.results_created > 0
    \/ run.summary.results_updated > 0

\* no step recomputes unless the import has returned without error
RecomputeOnlyAfterReturn ==
    [][~ImportReturned => (entries' = entries /\ ~run'.recomputed)]_vars

\* C38 as stated: the command recomputes only after the import has completed
\* without error, never when it raised, and whenever the mode is bootstrap or
\* a matchday was planned or a result was created or updated.
C38_RecomputeAfterImport ==
    /\ RecomputeOnlyAfterReturn
    /\ (ImportReturned /\ RecomputeCalledFor) ~> run.recomputed

\* C38: the same, the recompute following whenever the run is not a dry run
\* and the mode is bootstrap or a matchday was planned or a result was
\* created or updated.
C38_RecomputeAfterRealImport ==
    /\ RecomputeOnlyAfterReturn
    /\ (ImportReturned /\ ~run.dry_run /\ RecomputeCalledFor) ~> run.recomputed

\* a smart update that planned a matchday has been followed by the recompute,
\* which created the entry of the user who tipped
C38_Witness ==
    /\ ImportReturned /\ run.mode = "smart" /\ ~run.dry_run
    /\ run.summary.groups_with_matches > 0
    /\ run.recomputed
    /\ call.op = "recompute" /\ 1 \in call.created
    /\ IsSome(entries[1])

====
